---- MODULE Spec2Model ----
(***************************************************************************)
(* Segments Stream of the usenet pool (package usenet_pool):               *)
(* a dispatcher, workerCount fetch workers, a wait-group closer, a result  *)
(* collector and a context watcher feed an ordered output channel that     *)
(* Read consumes and Close drains.  Every goroutine is a process whose     *)
(* steps are the channel operations, atomic loads/adds, condition-variable *)
(* operations and context reads of its code.                               *)
(*                                                                         *)
(* Granularity: one step is one blocking point or one read of shared state *)
(* of the code.  bufferCond.L is taken by the dispatcher alone (Signal and *)
(* Broadcast are called without it), so it orders nothing and is left out; *)
(* what matters is that the dispatcher's test of the wait condition and    *)
(* its entry into Wait() are two steps.  An atomic Add that is directly    *)
(* followed by Signal is one step with it.  pool.fetchSegment is the NNTP  *)
(* pool's: a fetch in flight returns data of some decoded size or an       *)
(* error.                                                                  *)
(*                                                                         *)
(* File Stream (stream.go): Read, Seek and Close hold s.mu from entry to   *)
(* return, so each is one step; ReadAt takes no lock and is two steps, the *)
(* creation of its private stream and the read with the deferred Close.    *)
(* The Segments Stream under a File Stream is reduced to what its callers  *)
(* see of it: the segment it starts at, the bytes read from it, whether it *)
(* is closed.  The interpolation search is a function of the file and the  *)
(* fetch outcomes; SearchSpec runs it probe by probe.                      *)
(*                                                                         *)
(* Content resolver (stream.go): one call of StreamByContentPath, a step   *)
(* per call into an archive adapter or the pool, whose outcome is drawn    *)
(* when the call is made, and Close of the nested stream it returns.       *)
(*                                                                         *)
(* Each part has its own specification (Spec, FileSpec, SearchSpec,        *)
(* ResolveSpec) and holds the variables of the other parts at their zero   *)
(* values.                                                                 *)
(***************************************************************************)
EXTENDS Integers, Sequences, FiniteSets, TLC

\* ---------------------------------------------------------------- bounds
MaxSegs == 2        \* longest segment list
MaxConn == 2        \* largest configured MaxConnectionPerStream
MaxBuffer == 3      \* largest buffer size handed to NewSegmentsStream
MaxReadLen == 2     \* longest len(p) of one Read call
SegBytes == 2       \* declared (encoded) size of every segment
MaxFileSegs == 2    \* most segments of a file read through a File Stream
MaxDecoded == 2     \* largest decoded size of one segment of such a file
MaxReadAt == 2      \* most ReadAt calls running at once
IntBits == 4        \* width of the integers Seek computes with
MaxSearchSegs == 4  \* most segments of a file the search is run on alone
LargeSegment == 8   \* decoded size of a large segment of such a file
MaxCorruptSegs == 2 \* most segments of a file whose probes answer any range
MaxCorruptByte == 3 \* largest offset in such an answer, and largest FileSize
MaxPath == 3        \* longest content path
MaxNzbFiles == 2    \* most files of an NZB
MaxContentFiles == 1 \* most persisted content-file records
MaxEntries == 2     \* most entries an archive lists

\* Decoded body sizes a fetch may deliver: equal to the declared size
\* (adjustment 0) or one byte shorter (adjustment 1).
DecodedSizes == {SegBytes - 1, SegBytes}

VARIABLES
    nsegs,                \* len(s.segments)
    maxConn,              \* config.Newz.MaxConnectionPerStream
    bufferSize,           \* the bufferSize argument of NewSegmentsStream
    ctxDone,              \* s.ctx is cancelled
    dataChan,             \* s.dataChan: queued segment indices
    dataClosed,           \* s.dataChan is closed
    errChan,              \* s.errChan: at most one error
    bufferSizeRemaining,  \* s.bufferSizeRemaining
    mu,                   \* holder of s.mu: "free", "read" or "close"
    currIdx,              \* segment whose body is s.currData (-1: none)
    currLen,              \* len(s.currData)
    currPos,              \* s.currPos
    closed,               \* s.closed
    fpc,                  \* startSegmentFetcher: "start", "run", "done"
    segmentChan,          \* segmentChan: queued segment indices
    segClosed,            \* segmentChan is closed
    resultChan,           \* resultChan: queued [idx, err] results
    resClosed,            \* resultChan is closed
    dpc, didx,            \* dispatcher position and loop index
    wpc, wseg, werr,      \* per worker: position, segment held, fetch error
    kpc, kexit,           \* collector position and the reason it returned
    pending, nextIdx, receivedCount,   \* collector locals
    bpc,                  \* context watcher goroutine position
    rpc, rlen, rn,        \* Read: position, len(p), n
    lastRead,             \* what the last Read call returned
    cpc, closeRet,        \* Close: position, and which kind of Close returned
    decoded,              \* history: decoded size fetched per segment (0: none)
    ferr,                 \* history: fetch outcome per segment
    fetchCount,           \* history: number of fetches started per segment
    sent,                 \* history: segment indices the collector put on dataChan
    reserved,             \* history: segments the dispatcher has reserved budget for
    out                   \* history: bytes Read has copied, as <<idx, pos>>

cfgVars == <<nsegs, maxConn, bufferSize>>
chanVars == <<dataChan, dataClosed, errChan, segmentChan, segClosed, resultChan, resClosed>>
dispVars == <<dpc, didx>>
workVars == <<wpc, wseg, werr>>
collVars == <<kpc, kexit, pending, nextIdx, receivedCount>>
readVars == <<rpc, rlen, rn, lastRead, currIdx, currLen, currPos>>
closeVars == <<cpc, closeRet, closed>>
histVars == <<decoded, ferr, fetchCount, sent, reserved, out>>
segVars == <<cfgVars, chanVars, dispVars, workVars, collVars, readVars, closeVars,
             histVars, ctxDone, bufferSizeRemaining, mu, fpc, bpc>>

\* File Stream (stream.go): one FileStream over one NZB file, its callers,
\* and one run of its interpolation search.
VARIABLES
    file,                 \* s.file: segment count, declared sizes, what a fetch
                          \* of each segment reports as its range; s.fileSize
    position,             \* s.position
    stream,               \* s.stream (NilStream: nil)
    fsClosed,             \* s.closed
    fsCtxDone,            \* s.ctx is cancelled
    readAt,               \* per ReadAt call in progress: off and its stream
    orphaned,             \* history: streams dropped unclosed, by creating method
    lastOp,               \* what the last call that returned has returned
    targetByte,           \* interpolationSearch: targetByte
    search                \* interpolationSearch: indexRange, byteRange, probes, result

\* Content resolver (stream.go): one call of StreamByContentPath and of Close
\* on the stream it returns.
VARIABLES
    callPc,               \* position of the call
    pathLeft,             \* len(targetParts) of the current streamTargetFromArchive
    level,                \* depth of the current streamTargetFromArchive
    archiveTypes,         \* file type of the archive of every level
    files,                \* files of the current streamTargetFromArchive
    created,              \* history: Virtual FSs and adapters created
    closedSet,            \* history: Virtual FSs and adapters closed
    confirmed,            \* history: archives and entries whose IsStreamable() was true
    touched,              \* history: archives listed and entries opened
    returned,             \* what StreamByContentPath has returned
    closeLog,             \* what Close of the returned stream closed, in order
    closeFails,           \* the closers that failed in it
    closeErr              \* the error it returned

\* RAR Archive Adapter (usenet_rar.go): one RARArchive over one archive.
VARIABLES
    headers,              \* what the header iterator of the archive yields
    solid,                \* ura.solid ("nil": not computed yet)
    rarFiles,             \* ura.files (not listed: nil)
    rarAnswer             \* what IsStreamable() has answered, archive and entries

rarVars == <<headers, solid, rarFiles, rarAnswer>>
resolveVars == <<callPc, pathLeft, level, archiveTypes, files, created, closedSet,
                 confirmed, touched, returned, closeLog, closeFails, closeErr>>
fileVars == <<file, position, stream, fsClosed, fsCtxDone, readAt, orphaned, lastOp>>
searchVars == <<targetByte, search>>

\* Name matching of the content resolver (stream.go): one selection of the
\* archive by StreamByContentPath, or one scan of a listing by
\* streamTargetFromArchive.
VARIABLES
    pick                  \* what is looked up, in what, and what was selected


\* Entry points of the pool (stream.go): one call of StreamLargestFile,
\* StreamFileByName or StreamByContentPath with one path element.
VARIABLES
    nzbDoc,               \* nzbDoc.Files: name, segment sizes, detected type of each
    poolCall              \* the call made: its arguments, the outcomes of its fetches,
                          \* the index handed to streamFile, and what it returned

poolVars == <<nzbDoc, poolCall>>


\* The context of the caller of StreamByContentPath.
VARIABLES
    callCtxDone           \* the ctx argument of the call is cancelled


\* NZB parser (package nzb): one Parse of a document, and the boundary hash
\* of NZBs.
VARIABLES
    xmlDoc,               \* the decoded document: per file its derived order number
                          \* and the number attribute of each segment
    parsed,               \* what Parse returned: nzb.Files
    nzb,                  \* the NZB hashed last: per file the message-ids of its segments
    digest,               \* its HashByFileBoundarySegmentIds
    prevNzb,              \* the NZB hashed before it
    prevDigest            \* and its hash

parseVars == <<xmlDoc, parsed>>
hashVars == <<nzb, digest, prevNzb, prevDigest>>


\* Archive volume grouper (archive_volume.go): the list it is called with
\* and what each call on that list returned.
VARIABLES
    volList,              \* the files of the call: name and size
    grouped               \* the results of the calls made so far, oldest first

groupVars == <<volList, grouped>>


\* NZB file fetch (nzb_info/nzb_file.go): the calls of FetchNZBFile for one
\* link, the two caches under the link's key, the singleflight group, the
\* process-NZB jobs enqueued, and the clock the failure cache expires by.
VARIABLES
    fetchPc,              \* where each call is
    fetchRet,             \* what each call returned
    nzbFileCache,         \* the GET whose file is cached under the key, 0 if none
    nzbFetchErrCache,     \* the GET whose failure is cached under the key, 0 if none
    errExpires,           \* the time at which the cached failure expires
    flight,               \* the singleflight call for the key, if one is in progress
    gets,                 \* HTTP GETs issued so far
    jobs,                 \* the jobs enqueued: the call and the GET of each
    clock,                \* the time
    fetchLog,             \* per call: the time it began and the GETs ended by then
    getLog                \* per GET: the call that issued it, its outcome, whether and
                          \* when the outcome was cached

fetchVars == <<fetchPc, fetchRet, nzbFileCache, nzbFetchErrCache, errExpires, flight,
               gets, jobs, clock, fetchLog, getLog>>


\* Process-NZB job handler (nzb_info/scheduler.go): the jobs it is still to
\* be given, the job it is at, and the persisted status of each NZB.
VARIABLES
    procLeft,             \* jobs not yet handed to the handler
    procJob,              \* the job in hand: its NZB, where the handler is, whether it
                          \* has stored the record, what the inspection said, and
                          \* whether it returned an error
    nzbStatus             \* the persisted status of each NZB

procVars == <<procLeft, procJob, nzbStatus>>


\* Disk-backed cache (cache/disk_backed.go) under the Segment Cache, for one
\* key: the entry of the key in otter, the file of the key, the calls of Add
\* in progress, and what the last Get returned.
VARIABLES
    otterEntry,           \* the key has an entry in c.otter
    diskFile,             \* the file of the key: whether it exists, which file it is,
                          \* and its chunks
    adders,               \* per caller of Add: where it is, the value it adds, the
                          \* file it has opened, and the chunks it has written
    addsLeft,             \* calls of Add still to be made
    addedOk,              \* an Add has returned nil and the entry was not removed since
    lastGet               \* what the last Get returned: ok, and the value decoded

cacheVars == <<otterEntry, diskFile, adders, addsLeft, addedOk, lastGet>>

otherVars == <<rarVars, pick, poolVars, callCtxDone, parseVars, hashVars, groupVars, fetchVars, procVars, cacheVars>>
restVars == <<fileVars, searchVars, resolveVars, otherVars>>
vars == <<segVars, restVars>>

\* ---------------------------------------------- File Stream: zero values
NoFile == [n |-> 0, bytes |-> <<>>, ranges |-> <<>>, fileSize |-> 0]
NilStream == [base |-> -1, read |-> 0, open |-> FALSE, ended |-> FALSE]
NoOp == [op |-> "none", at |-> 0, len |-> 0, n |-> 0, err |-> "nil", bytes |-> <<>>]
NoReadAt == [pc |-> "idle", off |-> 0, stream |-> NilStream]
NoResult == [status |-> "none", SegmentIndex |-> -1, Range |-> [Start |-> 0, End |-> 0]]
NoSearch == [pc |-> "idle", indexRange |-> [Start |-> 0, End |-> 0],
             byteRange |-> [Start |-> 0, End |-> 0], probes |-> <<>>,
             result |-> NoResult]
ReadAtCalls == 1 .. MaxReadAt

\* NewFileStream: position 0, no stream, not closed; no call in progress.
NewFileStream ==
    /\ position = 0
    /\ stream = NilStream
    /\ fsClosed = FALSE
    /\ fsCtxDone = FALSE
    /\ readAt = [c \in ReadAtCalls |-> NoReadAt]
    /\ orphaned = [m \in {"Read", "ReadAt"} |-> 0]
    /\ lastOp = NoOp

\* No call of StreamByContentPath has been made.
NoReturn == [kind |-> "none", err |-> "nil", depth |-> 0]
Returns(kind, err, depth) == [kind |-> kind, err |-> err, depth |-> depth]

ResolveIdle ==
    /\ callPc = "idle"
    /\ pathLeft = 0
    /\ level = 0
    /\ archiveTypes = <<>>
    /\ files = <<>>
    /\ created = {}
    /\ closedSet = {}
    /\ confirmed = {}
    /\ touched = {}
    /\ returned = NoReturn
    /\ closeLog = <<>>
    /\ closeFails = {}
    /\ closeErr = <<>>

\* No File Stream exists, no search runs.
FileIdle == file = NoFile /\ NewFileStream
SearchIdle == targetByte = 0 /\ search = NoSearch

\* No RAR adapter exists.
NoAnswer == [archive |-> "none", entries |-> <<>>]
RarIdle ==
    /\ headers = <<>>
    /\ solid = "nil"
    /\ rarFiles = [listed |-> FALSE, files |-> <<>>]
    /\ rarAnswer = NoAnswer

\* Nothing is looked up.
NoPick == [stage |-> "none", nzbFiles |-> <<>>, contentFiles |-> <<>>, list |-> <<>>,
           name |-> [ext |-> "", caps |-> FALSE, slash |-> FALSE], done |-> FALSE,
           file |-> 0, archiveName |-> [ext |-> "", caps |-> FALSE, slash |-> FALSE],
           opened |-> [ext |-> "", caps |-> FALSE, slash |-> FALSE], err |-> "nil"]
PickIdle == pick = NoPick

\* No entry point of the pool has been called.
NoCall == [op |-> "none", name |-> [ext |-> "", caps |-> FALSE, slash |-> FALSE],
           contentFiles |-> <<>>, fetched |-> FALSE, archiveOk |-> FALSE,
           idx |-> -1, kind |-> "none", err |-> "nil"]
PoolIdle == nzbDoc = <<>> /\ poolCall = NoCall

\* The caller's context is live.
CallIdle == callCtxDone = FALSE

\* Nothing has been parsed or hashed.
NotParsed == [done |-> FALSE, Files |-> <<>>]
NoDigest == [done |-> FALSE, sum |-> <<>>]
ParseIdle == xmlDoc = <<>> /\ parsed = NotParsed
HashIdle == nzb = <<>> /\ digest = NoDigest /\ prevNzb = <<>> /\ prevDigest = NoDigest

\* Nothing has been grouped.
GroupIdle == volList = <<>> /\ grouped = <<>>

\* No FetchNZBFile call has been made.
NotReturned == [kind |-> "none", get |-> 0]
NoFlight == [active |-> FALSE, result |-> NotReturned]
FetchIdle ==
    /\ fetchPc = <<>> /\ fetchRet = <<>>
    /\ nzbFileCache = 0 /\ nzbFetchErrCache = 0 /\ errExpires = 0
    /\ flight = NoFlight /\ gets = 0
    /\ jobs = <<>> /\ clock = 0 /\ fetchLog = <<>> /\ getLog = <<>>

\* The job handler has no job.
NoJob == [hash |-> 0, pc |-> "none", stored |-> FALSE, content |-> "none", err |-> FALSE]
ProcIdle == procLeft = 0 /\ procJob = NoJob /\ nzbStatus = <<>>

\* The disk-backed cache is empty and nobody uses it.
AbsentFile == [exists |-> FALSE, ino |-> 0, data |-> <<>>]
NoAdd == [pc |-> "idle", value |-> 0, ino |-> 0, written |-> 0]
NoGet == [called |-> FALSE, ok |-> FALSE, value |-> <<>>]
CacheIdle ==
    /\ otterEntry = FALSE
    /\ diskFile = AbsentFile
    /\ adders = <<>>
    /\ addsLeft = 0
    /\ addedOk = FALSE
    /\ lastGet = NoGet

\* The parts that follow the content resolver are idle.
OtherIdle == RarIdle /\ PickIdle /\ PoolIdle /\ CallIdle /\ ParseIdle /\ HashIdle /\ GroupIdle /\ FetchIdle /\ ProcIdle /\ CacheIdle

\* What the actions of each of these parts leave alone.
notRar == <<segVars, fileVars, searchVars, resolveVars, pick, poolVars, callCtxDone, parseVars, hashVars, groupVars, fetchVars, procVars, cacheVars>>
notPick == <<segVars, fileVars, searchVars, resolveVars, rarVars, poolVars, callCtxDone, parseVars, hashVars, groupVars, fetchVars, procVars, cacheVars>>
notPool == <<segVars, fileVars, searchVars, resolveVars, rarVars, pick, callCtxDone, parseVars, hashVars, groupVars, fetchVars, procVars, cacheVars>>
notCall == <<segVars, fileVars, searchVars, resolveVars, rarVars, pick, poolVars, parseVars, hashVars, groupVars, fetchVars, procVars, cacheVars>>
notParse == <<segVars, fileVars, searchVars, resolveVars, rarVars, pick, poolVars, callCtxDone, hashVars, groupVars, fetchVars, procVars, cacheVars>>
notHash == <<segVars, fileVars, searchVars, resolveVars, rarVars, pick, poolVars, callCtxDone, parseVars, groupVars, fetchVars, procVars, cacheVars>>
notGroup == <<segVars, fileVars, searchVars, resolveVars, rarVars, pick, poolVars, callCtxDone, parseVars, hashVars, fetchVars, procVars, cacheVars>>
notFetch == <<segVars, fileVars, searchVars, resolveVars, rarVars, pick, poolVars, callCtxDone, parseVars, hashVars, groupVars, procVars, cacheVars>>
notProc == <<segVars, fileVars, searchVars, resolveVars, rarVars, pick, poolVars, callCtxDone, parseVars, hashVars, groupVars, fetchVars, cacheVars>>
notCache == <<segVars, fileVars, searchVars, resolveVars, rarVars, pick, poolVars, callCtxDone, parseVars, hashVars, groupVars, fetchVars, procVars>>

\* ------------------------------------------------------------ helpers
Min(a, b) == IF a < b THEN a ELSE b
Max(a, b) == IF a > b THEN a ELSE b

Segs == 0 .. (nsegs - 1)

\* NewSegmentsStream: workerCount := max(min(len(segments), MaxConnectionPerStream), 1)
WorkerCountUncapped(n, conn) == Max(n, 1)
WorkerCount(n, conn) == Max(Min(n, conn), 1)

workerCount == WorkerCount(nsegs, maxConn)
Workers == 1 .. workerCount

\* capacities of the three channels
DataChanCap == workerCount * 2
SegmentChanCap == workerCount
ResultChanCap == workerCount * 2

\* sync.Cond Signal / Broadcast: the dispatcher is the only goroutine that
\* ever waits; it is woken only if it is already on the notify list.
Wake(d) == IF d = "wait" THEN "check" ELSE d

NoRead == [n |-> 0, err |-> "none", closed |-> FALSE, ctx |-> FALSE]

\* ------------------------------------------------------------ initial state
StreamInit ==
    /\ nsegs \in 0 .. MaxSegs
    /\ maxConn \in 1 .. MaxConn
    /\ bufferSize \in 1 .. MaxBuffer
    /\ ctxDone = FALSE
    /\ dataChan = <<>> /\ dataClosed = FALSE
    /\ errChan = <<>>
    /\ bufferSizeRemaining = bufferSize
    /\ mu = "free"
    /\ currIdx = -1 /\ currLen = 0 /\ currPos = 0
    /\ closed = FALSE
    /\ fpc = "start"
    /\ segmentChan = <<>> /\ segClosed = FALSE
    /\ resultChan = <<>> /\ resClosed = FALSE
    /\ dpc = "idle" /\ didx = 0
    /\ wpc = [w \in Workers |-> "idle"]
    /\ wseg = [w \in Workers |-> -1]
    /\ werr = [w \in Workers |-> "nil"]
    /\ kpc = "idle" /\ kexit = "none"
    /\ pending = {} /\ nextIdx = 0 /\ receivedCount = 0
    /\ bpc = "idle"
    /\ rpc = "idle" /\ rlen = 0 /\ rn = 0
    /\ lastRead = NoRead
    /\ cpc = "idle" /\ closeRet = "none"
    /\ decoded = [i \in Segs |-> 0]
    /\ ferr = [i \in Segs |-> "none"]
    /\ fetchCount = [i \in Segs |-> 0]
    /\ sent = <<>>
    /\ reserved = 0
    /\ out = <<>>

\* A Segments Stream on its own: no File Stream is built over it.
Init == StreamInit /\ FileIdle /\ SearchIdle /\ ResolveIdle /\ OtherIdle

\* ------------------------------------------------------------ fetcher
\* startSegmentFetcher: an empty list closes dataChan at once; otherwise the
\* watcher, the dispatcher, the workers and the collector are started.
startSegmentFetcher ==
    /\ fpc = "start"
    /\ IF nsegs = 0
       THEN /\ dataClosed' = TRUE
            /\ fpc' = "done"
            /\ UNCHANGED <<dpc, wpc, kpc, bpc>>
       ELSE /\ fpc' = "run"
            /\ dpc' = "check"
            /\ wpc' = [w \in Workers |-> "recv"]
            /\ kpc' = "select"
            /\ bpc' = "wait"
            /\ UNCHANGED dataClosed
    /\ UNCHANGED <<restVars, cfgVars, dataChan, errChan, segmentChan, segClosed, resultChan,
                   resClosed, didx, wseg, werr, kexit, pending, nextIdx,
                   receivedCount, readVars, closeVars, histVars, ctxDone,
                   bufferSizeRemaining, mu>>

\* go func() { <-s.ctx.Done(); s.bufferCond.Broadcast() }()
ctxWatcher ==
    /\ bpc = "wait"
    /\ ctxDone
    /\ bpc' = "done"
    /\ dpc' = Wake(dpc)
    /\ UNCHANGED <<restVars, cfgVars, chanVars, didx, workVars, collVars, readVars, closeVars,
                   histVars, ctxDone, bufferSizeRemaining, mu, fpc>>

\* ------------------------------------------------------------ dispatcher
\* startSegmentFetchDispatcher, loop head (lines 119-126): the range loop ends
\* after the last segment; otherwise the wait condition is evaluated.  A true
\* condition leads to bufferCond.Wait(), which has not yet put the goroutine
\* on the notify list ("prewait").
dispatcherCheck ==
    /\ dpc = "check"
    /\ IF didx >= nsegs
       THEN /\ dpc' = "done"
            /\ segClosed' = TRUE
       ELSE /\ dpc' = IF bufferSizeRemaining <= 0 /\ ~ctxDone THEN "prewait" ELSE "ctxcheck"
            /\ UNCHANGED segClosed
    /\ UNCHANGED <<restVars, cfgVars, dataChan, dataClosed, errChan, segmentChan, resultChan,
                   resClosed, didx, workVars, collVars, readVars, closeVars,
                   histVars, ctxDone, bufferSizeRemaining, mu, fpc, bpc>>

\* bufferCond.Wait(): the goroutine joins the notify list and blocks.
dispatcherWait ==
    /\ dpc = "prewait"
    /\ dpc' = "wait"
    /\ UNCHANGED <<restVars, cfgVars, chanVars, didx, workVars, collVars, readVars, closeVars,
                   histVars, ctxDone, bufferSizeRemaining, mu, fpc, bpc>>

\* lines 127-130: if s.ctx.Err() != nil { return }  (deferred close(segmentChan))
dispatcherCtxCheck ==
    /\ dpc = "ctxcheck"
    /\ IF ctxDone
       THEN /\ dpc' = "done"
            /\ segClosed' = TRUE
       ELSE /\ dpc' = "reserve"
            /\ UNCHANGED segClosed
    /\ UNCHANGED <<restVars, cfgVars, dataChan, dataClosed, errChan, segmentChan, resultChan,
                   resClosed, didx, workVars, collVars, readVars, closeVars,
                   histVars, ctxDone, bufferSizeRemaining, mu, fpc, bpc>>

\* line 131: s.bufferSizeRemaining.Add(-segment.Bytes)
dispatcherReserve ==
    /\ dpc = "reserve"
    /\ bufferSizeRemaining' = bufferSizeRemaining - SegBytes
    /\ reserved' = reserved + 1
    /\ dpc' = "send"
    /\ UNCHANGED <<restVars, cfgVars, chanVars, didx, workVars, collVars, readVars, closeVars,
                   decoded, ferr, fetchCount, sent, out, ctxDone, mu, fpc, bpc>>

\* lines 134-138: select { case <-ctx.Done(): return; case segmentChan <- ... }
dispatcherSend ==
    /\ dpc = "send"
    /\ \/ /\ ctxDone
          /\ dpc' = "done"
          /\ segClosed' = TRUE
          /\ UNCHANGED <<segmentChan, didx>>
       \/ /\ Len(segmentChan) < SegmentChanCap
          /\ segmentChan' = Append(segmentChan, didx)
          /\ didx' = didx + 1
          /\ dpc' = "check"
          /\ UNCHANGED segClosed
    /\ UNCHANGED <<restVars, cfgVars, dataChan, dataClosed, errChan, resultChan, resClosed,
                   workVars, collVars, readVars, closeVars, histVars, ctxDone,
                   bufferSizeRemaining, mu, fpc, bpc>>

Dispatcher ==
    \/ dispatcherCheck
    \/ dispatcherWait
    \/ dispatcherCtxCheck
    \/ dispatcherReserve
    \/ dispatcherSend

\* ------------------------------------------------------------ workers
\* startFetcher, line 143: for segmentWithIdx := range segmentChan
fetcherRecv(w) ==
    /\ wpc[w] = "recv"
    /\ IF segmentChan # <<>>
       THEN /\ wseg' = [wseg EXCEPT ![w] = Head(segmentChan)]
            /\ segmentChan' = Tail(segmentChan)
            /\ wpc' = [wpc EXCEPT ![w] = "chk"]
       ELSE /\ segClosed
            /\ wpc' = [wpc EXCEPT ![w] = "done"]
            /\ UNCHANGED <<wseg, segmentChan>>
    /\ UNCHANGED <<restVars, cfgVars, dataChan, dataClosed, errChan, segClosed, resultChan,
                   resClosed, dispVars, werr, collVars, readVars, closeVars,
                   histVars, ctxDone, bufferSizeRemaining, mu, fpc, bpc>>

\* lines 144-150: a cancelled context returns; otherwise pool.fetchSegment is
\* called and the fetch is in flight.
fetcherStart(w) ==
    /\ wpc[w] = "chk"
    /\ IF ctxDone
       THEN /\ wpc' = [wpc EXCEPT ![w] = "done"]
            /\ UNCHANGED fetchCount
       ELSE /\ wpc' = [wpc EXCEPT ![w] = "fetch"]
            /\ fetchCount' = [fetchCount EXCEPT ![wseg[w]] = @ + 1]
    /\ UNCHANGED <<restVars, cfgVars, chanVars, dispVars, wseg, werr, collVars, readVars,
                   closeVars, decoded, ferr, sent, out, ctxDone,
                   bufferSizeRemaining, mu, fpc, bpc, reserved>>

\* The errors pool.fetchSegment can return: a provider or network failure at any
\* time, the context's error once the context is cancelled.
FetchErrors == {"net"} \cup (IF ctxDone THEN {"ctx"} ELSE {})

\* line 152: adjustment := segmentWithIdx.Bytes - data.Size
AdjustmentNone(size) == 0
Adjustment(size) == SegBytes - size

\* lines 150-156: fetchSegment returns data of some decoded size, and the
\* worker returns the declared-decoded delta to the budget, signalling the
\* dispatcher when the delta is not 0.
fetcherFetched(w, size) ==
    /\ wpc[w] = "fetch"
    /\ size \in DecodedSizes
    /\ decoded' = [decoded EXCEPT ![wseg[w]] = size]
    /\ ferr' = [ferr EXCEPT ![wseg[w]] = "nil"]
    /\ werr' = [werr EXCEPT ![w] = "nil"]
    /\ bufferSizeRemaining' = bufferSizeRemaining + Adjustment(size)
    /\ dpc' = IF Adjustment(size) # 0 THEN Wake(dpc) ELSE dpc
    /\ wpc' = [wpc EXCEPT ![w] = "post"]
    /\ UNCHANGED <<restVars, cfgVars, chanVars, didx, wseg, collVars, readVars, closeVars,
                   fetchCount, sent, out, ctxDone, mu, fpc, bpc, reserved>>

\* lines 150-151: fetchSegment returns no data and an error.
fetcherFailed(w, e) ==
    /\ wpc[w] = "fetch"
    /\ e \in FetchErrors
    /\ ferr' = [ferr EXCEPT ![wseg[w]] = e]
    /\ werr' = [werr EXCEPT ![w] = e]
    /\ wpc' = [wpc EXCEPT ![w] = "post"]
    /\ UNCHANGED <<restVars, cfgVars, chanVars, dispVars, wseg, collVars, readVars, closeVars,
                   decoded, fetchCount, sent, out, ctxDone, bufferSizeRemaining,
                   mu, fpc, bpc, reserved>>

\* lines 158-162: select { case resultChan <- result; case <-ctx.Done(): return }
fetcherPost(w) ==
    /\ wpc[w] = "post"
    /\ \/ /\ Len(resultChan) < ResultChanCap
          /\ resultChan' = Append(resultChan, [idx |-> wseg[w], err |-> werr[w]])
          /\ wpc' = [wpc EXCEPT ![w] = "recv"]
       \/ /\ ctxDone
          /\ wpc' = [wpc EXCEPT ![w] = "done"]
          /\ UNCHANGED resultChan
    /\ UNCHANGED <<restVars, cfgVars, dataChan, dataClosed, errChan, segmentChan, segClosed,
                   resClosed, dispVars, wseg, werr, collVars, readVars, closeVars,
                   histVars, ctxDone, bufferSizeRemaining, mu, fpc, bpc>>

\* startSegmentFetcher lines 108-111: go func() { wg.Wait(); close(resultChan) }()
waitGroupClose ==
    /\ fpc = "run"
    /\ ~resClosed
    /\ \A w \in Workers : wpc[w] = "done"
    /\ resClosed' = TRUE
    /\ UNCHANGED <<restVars, cfgVars, dataChan, dataClosed, errChan, segmentChan, segClosed,
                   resultChan, dispVars, workVars, collVars, readVars, closeVars,
                   histVars, ctxDone, bufferSizeRemaining, mu, fpc, bpc>>

\* ------------------------------------------------------------ collector
\* line 185: if result.err != nil
ResultFailedNever(e) == FALSE
ResultFailed(e) == e # "nil"

\* lines 199-202: data, ok := pending[nextIdx]; the index to emit, or -1.
ReadyIdxAny(p, n) == IF p # {} THEN CHOOSE i \in p : \A j \in p : i <= j ELSE -1
ReadyIdx(p, n) == IF n \in p THEN n ELSE -1

\* lines 174-196: the select of the collector loop.  The context's Done
\* channel and the result channel may both be ready; either may be taken.
collectorSelect ==
    /\ kpc = "select"
    /\ \/ /\ ctxDone
          /\ kpc' = "closing"
          /\ kexit' = "ctx"
          /\ UNCHANGED <<resultChan, errChan, pending, receivedCount>>
       \/ /\ resultChan = <<>>
          /\ resClosed
          /\ kpc' = "closing"
          /\ kexit' = "closed"
          /\ UNCHANGED <<resultChan, errChan, pending, receivedCount>>
       \/ /\ resultChan # <<>>
          /\ resultChan' = Tail(resultChan)
          /\ receivedCount' = receivedCount + 1
          /\ IF ResultFailed(Head(resultChan).err)
             THEN \* select { case s.errChan <- result.err: default: }; return
                  /\ errChan' = IF errChan = <<>> THEN <<Head(resultChan).err>> ELSE errChan
                  /\ kpc' = "closing"
                  /\ kexit' = "err"
                  /\ UNCHANGED pending
             ELSE /\ pending' = pending \cup {Head(resultChan).idx}
                  /\ kpc' = "flush"
                  /\ UNCHANGED <<errChan, kexit>>
    /\ UNCHANGED <<restVars, cfgVars, dataChan, dataClosed, segmentChan, segClosed, resClosed,
                   dispVars, workVars, nextIdx, readVars, closeVars, histVars,
                   ctxDone, bufferSizeRemaining, mu, fpc, bpc>>

\* lines 198-212 and the loop test of line 174: emit pending[nextIdx] while it
\* is there; then go back to the select, or leave when all results are in.
collectorFlush ==
    /\ kpc = "flush"
    /\ IF ReadyIdx(pending, nextIdx) # -1
       THEN \/ /\ Len(dataChan) < DataChanCap
               /\ dataChan' = Append(dataChan, ReadyIdx(pending, nextIdx))
               /\ pending' = pending \ {ReadyIdx(pending, nextIdx)}
               /\ nextIdx' = nextIdx + 1
               /\ sent' = Append(sent, ReadyIdx(pending, nextIdx))
               /\ UNCHANGED <<kpc, kexit>>
            \/ /\ ctxDone
               /\ kpc' = "closing"
               /\ kexit' = "ctx"
               /\ pending' = pending \ {ReadyIdx(pending, nextIdx)}
               /\ UNCHANGED <<dataChan, nextIdx, sent>>
       ELSE /\ IF receivedCount < nsegs
               THEN kpc' = "select" /\ UNCHANGED kexit
               ELSE kpc' = "closing" /\ kexit' = "complete"
            /\ UNCHANGED <<dataChan, pending, nextIdx, sent>>
    /\ UNCHANGED <<restVars, cfgVars, dataClosed, errChan, segmentChan, segClosed, resultChan,
                   resClosed, dispVars, workVars, receivedCount, readVars, closeVars,
                   decoded, ferr, fetchCount, out, ctxDone, bufferSizeRemaining,
                   mu, fpc, bpc, reserved>>

\* line 167: defer close(s.dataChan)
collectorClose ==
    /\ kpc = "closing"
    /\ dataClosed' = TRUE
    /\ kpc' = "done"
    /\ UNCHANGED <<restVars, cfgVars, dataChan, errChan, segmentChan, segClosed, resultChan,
                   resClosed, dispVars, workVars, kexit, pending, nextIdx,
                   receivedCount, readVars, closeVars, histVars, ctxDone,
                   bufferSizeRemaining, mu, fpc, bpc>>

Collector ==
    \/ collectorSelect
    \/ collectorFlush
    \/ collectorClose

\* ------------------------------------------------------------ Read
\* lines 221-223: if s.closed { return 0, io.EOF }
ReadSeesClosedNever(c) == FALSE
ReadSeesClosed(c) == c

\* line 250: s.bufferSizeRemaining.Add(data.Size)
ReadCreditNone(size) == 0
ReadCredit(size) == size

ReadResult(n, e, wasClosed) == [n |-> n, err |-> e, closed |-> wasClosed, ctx |-> ctxDone]

\* lines 217-223: Read locks s.mu; a closed stream returns 0, io.EOF.
ReadCall(len) ==
    /\ rpc = "idle"
    /\ mu = "free"
    /\ len \in 1 .. MaxReadLen
    /\ IF ReadSeesClosed(closed)
       THEN /\ lastRead' = ReadResult(0, "EOF", closed)
            /\ UNCHANGED <<rpc, rlen, rn, mu>>
       ELSE /\ rpc' = "loop"
            /\ rlen' = len
            /\ rn' = 0
            /\ mu' = "read"
            /\ lastRead' = [NoRead EXCEPT !.closed = closed]
    /\ UNCHANGED <<restVars, cfgVars, chanVars, dispVars, workVars, collVars, currIdx, currLen,
                   currPos, closeVars, histVars, ctxDone, bufferSizeRemaining,
                   fpc, bpc>>

\* lines 225-239: one pass of the loop up to the channel receive: return when p
\* is full, return a pending error, copy from currData, or go on to receive.
ReadLoop ==
    /\ rpc = "loop"
    /\ IF rn >= rlen
       THEN /\ lastRead' = ReadResult(rn, "nil", lastRead.closed)
            /\ rpc' = "idle" /\ mu' = "free"
            /\ UNCHANGED <<errChan, rn, currPos, out>>
       ELSE IF errChan # <<>>
       THEN /\ lastRead' = ReadResult(rn, Head(errChan), lastRead.closed)
            /\ errChan' = <<>>
            /\ rpc' = "idle" /\ mu' = "free"
            /\ UNCHANGED <<rn, currPos, out>>
       ELSE IF currPos < currLen
       THEN /\ LET copied == Min(rlen - rn, currLen - currPos) IN
               /\ out' = out \o [k \in 1 .. copied |-> <<currIdx, currPos + k - 1>>]
               /\ currPos' = currPos + copied
               /\ rn' = rn + copied
            /\ UNCHANGED <<errChan, rpc, mu, lastRead>>
       ELSE /\ rpc' = "recv"
            /\ UNCHANGED <<errChan, rn, currPos, out, mu, lastRead>>
    /\ UNCHANGED <<restVars, cfgVars, dataChan, dataClosed, segmentChan, segClosed, resultChan,
                   resClosed, dispVars, workVars, collVars, rlen, currIdx, currLen,
                   closeVars, decoded, ferr, fetchCount, sent, ctxDone,
                   bufferSizeRemaining, fpc, bpc, reserved>>

\* lines 241-256: data, ok := <-s.dataChan.  A closed channel returns n, nil or
\* 0, io.EOF; a segment is credited to the budget, the dispatcher is
\* signalled, and the body becomes currData.
ReadRecv ==
    /\ rpc = "recv"
    /\ IF dataChan # <<>>
       THEN /\ dataChan' = Tail(dataChan)
            /\ bufferSizeRemaining' = bufferSizeRemaining + ReadCredit(decoded[Head(dataChan)])
            /\ dpc' = Wake(dpc)
            /\ currIdx' = Head(dataChan)
            /\ currLen' = decoded[Head(dataChan)]
            /\ currPos' = 0
            /\ rpc' = "loop"
            /\ UNCHANGED <<mu, lastRead>>
       ELSE /\ dataClosed
            /\ lastRead' = ReadResult(rn, IF rn > 0 THEN "nil" ELSE "EOF", lastRead.closed)
            /\ rpc' = "idle" /\ mu' = "free"
            /\ UNCHANGED <<dataChan, bufferSizeRemaining, dpc, currIdx, currLen, currPos>>
    /\ UNCHANGED <<restVars, cfgVars, dataClosed, errChan, segmentChan, segClosed, resultChan,
                   resClosed, didx, workVars, collVars, rlen, rn, closeVars,
                   histVars, ctxDone, fpc, bpc>>

Read ==
    \/ \E len \in 1 .. MaxReadLen : ReadCall(len)
    \/ ReadLoop
    \/ ReadRecv

\* ------------------------------------------------------------ Close
\* line 266: if s.closed { return nil }
CloseSeesClosedNever(c) == FALSE
CloseSeesClosed(c) == c

\* lines 262-271: Close locks s.mu; a closed stream returns nil; otherwise the
\* stream is marked closed and its context is cancelled.
CloseCall ==
    /\ cpc = "idle"
    /\ mu = "free"
    /\ IF CloseSeesClosed(closed)
       THEN /\ closeRet' = "noop"
            /\ UNCHANGED <<closed, ctxDone, mu, cpc>>
       ELSE /\ closed' = TRUE
            /\ ctxDone' = TRUE
            /\ mu' = "close"
            /\ cpc' = "bcast"
            /\ UNCHANGED closeRet
    /\ UNCHANGED <<restVars, cfgVars, chanVars, dispVars, workVars, collVars, readVars,
                   histVars, bufferSizeRemaining, fpc, bpc>>

\* line 273: s.bufferCond.Broadcast()
CloseBroadcast ==
    /\ cpc = "bcast"
    /\ dpc' = Wake(dpc)
    /\ cpc' = "drain"
    /\ UNCHANGED <<restVars, cfgVars, chanVars, didx, workVars, collVars, readVars, closeRet,
                   closed, histVars, ctxDone, bufferSizeRemaining, mu, fpc, bpc>>

\* lines 275-279: for range s.dataChan {}; return nil
CloseDrain ==
    /\ cpc = "drain"
    /\ IF dataChan # <<>>
       THEN /\ dataChan' = Tail(dataChan)
            /\ UNCHANGED <<cpc, closeRet, mu>>
       ELSE /\ dataClosed
            /\ cpc' = "idle"
            /\ closeRet' = "first"
            /\ mu' = "free"
            /\ UNCHANGED dataChan
    /\ UNCHANGED <<restVars, cfgVars, dataClosed, errChan, segmentChan, segClosed, resultChan,
                   resClosed, dispVars, workVars, collVars, readVars, closed,
                   histVars, ctxDone, bufferSizeRemaining, fpc, bpc>>

Close ==
    \/ CloseCall
    \/ CloseBroadcast
    \/ CloseDrain

\* The context handed to NewSegmentsStream is cancelled by its owner.
CancelContext ==
    /\ ~ctxDone
    /\ ctxDone' = TRUE
    /\ UNCHANGED <<restVars, cfgVars, chanVars, dispVars, workVars, collVars, readVars,
                   closeVars, histVars, bufferSizeRemaining, mu, fpc, bpc>>

\* ------------------------------------------------------------ specification
Fetcher(w) ==
    \/ fetcherRecv(w)
    \/ fetcherStart(w)
    \/ \E size \in DecodedSizes : fetcherFetched(w, size)
    \/ fetcherPost(w)

FetcherFails(w) == \E e \in FetchErrors : fetcherFailed(w, e)

Next ==
    \/ startSegmentFetcher
    \/ ctxWatcher
    \/ Dispatcher
    \/ \E w \in Workers : Fetcher(w)
    \/ \E w \in Workers : FetcherFails(w)
    \/ waitGroupClose
    \/ Collector
    \/ Read
    \/ Close
    \/ CancelContext

Spec == Init /\ [][Next]_vars

\* ------------------------------------------------------------ properties
\* Body of segment i as fetched, and the concatenation of bodies 0..m-1.
Body(i) == [k \in 1 .. decoded[i] |-> <<i, k - 1>>]

RECURSIVE Concat(_)
Concat(m) == IF m = 0 THEN <<>> ELSE Concat(m - 1) \o Body(m - 1)

IsPrefix(a, b) == Len(a) <= Len(b) /\ \A k \in 1 .. Len(a) : a[k] = b[k]

NoFetchError == \A i \in Segs : ferr[i] \in {"none", "nil"}
AllFetched == \A i \in Segs : ferr[i] = "nil"
InFlight == {w \in Workers : wpc[w] = "fetch"}

\* C1: the collector puts segment i on the output channel only after
\* segments 0..i-1, each once; the bytes Read has returned are a prefix of the
\* concatenation of the bodies in index order; and when no fetch failed and
\* nothing was cancelled, a Read that returns EOF has returned all of them.
C1_InOrderDelivery ==
    /\ sent = [k \in 1 .. Len(sent) |-> k - 1]
    /\ IsPrefix(out, Concat(Len(sent)))
    /\ (rpc = "idle" /\ lastRead.err = "EOF" /\ ~lastRead.closed /\ ~lastRead.ctx
            /\ NoFetchError)
         => (AllFetched /\ out = Concat(nsegs))

\* C1 witness: two segments fetched by two workers were read to EOF.
C1_Witness ==
    /\ nsegs >= 2 /\ workerCount >= 2
    /\ rpc = "idle" /\ lastRead.err = "EOF" /\ ~lastRead.closed /\ ~ctxDone
    /\ AllFetched /\ out = Concat(nsegs) /\ Len(out) >= 2

\* C4 (state part): once Close has returned the context is cancelled and the
\* output channel is closed and empty; a Read called on a closed stream
\* returns 0 bytes and EOF.
C4_CloseState ==
    /\ closeRet # "none" => (closed /\ ctxDone /\ dataClosed /\ dataChan = <<>>)
    /\ (rpc = "idle" /\ lastRead.closed /\ lastRead.err # "none")
         => (lastRead.n = 0 /\ lastRead.err = "EOF")

\* C4 (step part): a Close called on a closed stream returns nil and changes
\* nothing of the stream.
C4_LaterCloseStep ==
    (closed /\ cpc = "idle" /\ closeVars' # closeVars)
      => /\ closeRet' = "noop"
         /\ UNCHANGED <<cfgVars, chanVars, dispVars, workVars, collVars, readVars,
                        cpc, closed, histVars, ctxDone, bufferSizeRemaining, mu,
                        fpc, bpc>>

\* C4: Close is idempotent, and Read after Close returns 0, EOF.
C4_CloseIdempotent == [](C4_CloseState) /\ [][C4_LaterCloseStep]_vars

\* C4 witness: a second Close returned, and a Read after Close returned EOF
\* although bytes of the current segment were left.
C4_Witness ==
    /\ closeRet = "noop"
    /\ rpc = "idle" /\ lastRead.closed /\ lastRead.err = "EOF"
    /\ currPos < currLen

\* C5: Read does not return EOF while an error is pending on the error channel.
C5_ErrorPreferredToEOF ==
    (rpc = "idle" /\ lastRead.err = "EOF" /\ ~lastRead.closed) => errChan = <<>>

\* C6: when the collector has returned because of a failed result, the error
\* was published, the output channel is closed and the context is cancelled.
C6_FirstErrorCancelsContext ==
    (kpc = "done" /\ kexit = "err") => (dataClosed /\ ctxDone)

\* C7: no byte of a segment whose fetch failed, or of a later segment, is
\* returned by Read.
C7_NoDeliveryFromFailedSegmentOn ==
    \A k \in Segs : ~(ferr[k] \in {"none", "nil"})
        => \A j \in 1 .. Len(out) : out[j][1] < k

\* C7 witness: segment 0 failed, a later segment was fetched with data, and
\* the collector has returned on the error.
C7_Witness ==
    /\ nsegs >= 2
    /\ ferr[0] = "net"
    /\ \E j \in Segs : j > 0 /\ decoded[j] > 0
    /\ kpc = "done" /\ kexit = "err"
    /\ rpc = "idle" /\ lastRead.err = "net"

\* C8: a Read that returns after the context was cancelled, with segments
\* undelivered, returns the context's error and not EOF.
C8_ReadReturnsContextError ==
    (rpc = "idle" /\ lastRead.ctx /\ ~lastRead.closed /\ lastRead.err # "none"
        /\ lastRead.n = 0 /\ NoFetchError /\ ~(AllFetched /\ out = Concat(nsegs)))
      => lastRead.err = "ctx"

\* C9 (as claimed): after Close returns in a run without fetch error, the
\* remaining budget equals the initial buffer size.
C9_BudgetRestoredAfterClose ==
    (closeRet # "none" /\ NoFetchError) => bufferSizeRemaining = bufferSize

\* C9 (amended): after Close returns in a run without fetch error in which
\* Read had received every segment from the output channel, the remaining
\* budget equals the initial buffer size.
C9_BudgetRestoredWhenConsumed ==
    (closeRet # "none" /\ NoFetchError /\ currIdx = nsegs - 1)
      => bufferSizeRemaining = bufferSize

\* C9 witness: two segments, one decoded shorter than declared, all received
\* by Read, then Close.
C9_Witness ==
    /\ closeRet = "first" /\ NoFetchError
    /\ nsegs >= 2 /\ currIdx = nsegs - 1
    /\ \E i \in Segs : decoded[i] # SegBytes

\* C10: at most max(1, min(len(segments), MaxConnectionPerStream)) fetches are
\* in flight, no two of them for the same segment, and no segment is fetched
\* twice.
C10_FetchConcurrencyCap ==
    /\ Cardinality(InFlight) <= Max(1, Min(nsegs, maxConn))
    /\ \A v, w \in InFlight : v # w => wseg[v] # wseg[w]
    /\ \A i \in Segs : fetchCount[i] <= 1

\* C10 witness: the cap is reached with two fetches in flight.
C10_Witness ==
    /\ Cardinality(InFlight) = 2
    /\ Cardinality(InFlight) = Max(1, Min(nsegs, maxConn))

\* ------------------------------------------------------------ fair runs
\* Steps of a run in which no fetch fails, the context is never cancelled and
\* Close is never called.
LiveNext ==
    \/ startSegmentFetcher
    \/ Dispatcher
    \/ \E w \in Workers : Fetcher(w)
    \/ waitGroupClose
    \/ Collector
    \/ Read

FairFetcher(w) == w \in Workers /\ Fetcher(w)

\* Every goroutine that can take a step eventually takes one, every fetch
\* returns, and the consumer keeps calling Read.
LiveSpec ==
    /\ Init
    /\ [][LiveNext]_vars
    /\ WF_vars(startSegmentFetcher)
    /\ WF_vars(Dispatcher)
    /\ \A w \in 1 .. MaxConn : WF_vars(FairFetcher(w))
    /\ WF_vars(waitGroupClose)
    /\ WF_vars(Collector)
    /\ WF_vars(Read)

\* Every goroutine of the pipeline that can take a step eventually takes one,
\* every fetch returns, and a Read or Close that was called runs on; whether
\* Read or Close is called, and whether the context is cancelled, is left open.
FairSpec ==
    /\ Init
    /\ [][Next]_vars
    /\ WF_vars(startSegmentFetcher)
    /\ WF_vars(ctxWatcher)
    /\ WF_vars(Dispatcher)
    /\ \A w \in 1 .. MaxConn : WF_vars(FairFetcher(w))
    /\ WF_vars(waitGroupClose)
    /\ WF_vars(Collector)
    /\ WF_vars(ReadLoop \/ ReadRecv)
    /\ WF_vars(CloseBroadcast \/ CloseDrain)

PipelineTerminated ==
    \/ fpc = "done"
    \/ /\ fpc = "run"
       /\ dpc = "done"
       /\ \A w \in Workers : wpc[w] = "done"
       /\ kpc = "done"

\* C2: with no failing fetch, no cancellation and a consumer that keeps
\* calling Read, Read eventually has returned every byte and then EOF.
C2_ReadReachesEOF ==
    <>(rpc = "idle" /\ lastRead.err = "EOF" /\ AllFetched /\ out = Concat(nsegs))

\* C3: once the context is cancelled (by its owner or by Close), the
\* dispatcher, every worker and the collector eventually have all returned.
C3_PipelineTerminates == ctxDone ~> PipelineTerminated

\* ====================================================================
\* File Stream (stream.go): FileStream over one NZB file.  Read, Seek and
\* Close hold s.mu from entry to return, so each is one step; ReadAt takes
\* no lock and is two steps, the creation of its private stream and the
\* rest.  A Segments Stream is seen here from outside: the segment it
\* starts at, how many bytes of it have been read, whether it is closed,
\* and whether its output channel has been found closed.  Its buffer size
\* decides only how far it fetches ahead and is left out.
\* ====================================================================

\* ------------------------------------------------------------ byte ranges
NewByteRangeFromSize(start, size) == [Start |-> start, End |-> start + size]
Count(r) == r.End - r.Start
Contains(r, byteIdx) == r.Start <= byteIdx /\ byteIdx < r.End
ContainsRange(r, other) == r.Start <= other.Start /\ other.End <= r.End

\* ------------------------------------------------------------ files
RECURSIVE SumBelow(_, _)
SumBelow(sizes, i) == IF i = 0 THEN 0 ELSE SumBelow(sizes, i - 1) + sizes[i - 1]

\* A file of n segments with declared sizes bytes whose decoded bodies have
\* the sizes given: every fetch reports the range its body really has, and
\* the first segment reports the sum as FileSize.
TiledFile(n, bytes, sizes) ==
    [n |-> n,
     bytes |-> bytes,
     ranges |-> [i \in 0 .. n - 1 |->
                    NewByteRangeFromSize(SumBelow(sizes, i), sizes[i])],
     fileSize |-> SumBelow(sizes, n)]

\* Files a File Stream is opened on: every segment is declared SegBytes long.
StreamedFiles ==
    UNION {{TiledFile(n, [i \in 0 .. n - 1 |-> SegBytes], sizes) :
                sizes \in [0 .. n - 1 -> 1 .. MaxDecoded]} : n \in 1 .. MaxFileSegs}

\* The segments of f tile [0, FileSize) without gap or overlap.
Tiles(f) ==
    /\ f.n > 0
    /\ f.ranges[0].Start = 0
    /\ f.ranges[f.n - 1].End = f.fileSize
    /\ \A i \in 0 .. f.n - 1 : Count(f.ranges[i]) > 0
    /\ \A i \in 0 .. f.n - 2 : f.ranges[i].End = f.ranges[i + 1].Start

avgSegmentSize(f) == IF f.n > 0 THEN f.fileSize \div f.n ELSE 0

\* int64(float64(segBytes) * s.segmentSizeRatio), the ratio being
\* fileSize / file.Size(), or 1 when file.Size() is 0.
estimatedDecodedBytes(f, i) ==
    LET totalSegmentBytes == SumBelow(f.bytes, f.n)
    IN  IF totalSegmentBytes > 0
        THEN (f.bytes[i] * f.fileSize) \div totalSegmentBytes
        ELSE f.bytes[i]

RECURSIVE estimateFrom(_, _, _, _)
estimateFrom(f, target, i, offset) ==
    IF i >= f.n THEN f.n - 1
    ELSE IF f.bytes[i] <= 0 THEN estimateFrom(f, target, i + 1, offset)
    ELSE IF target < offset + estimatedDecodedBytes(f, i) THEN i
    ELSE estimateFrom(f, target, i + 1, offset + estimatedDecodedBytes(f, i))

estimateSegmentIndex(f, target) == estimateFrom(f, target, 0, 0)

\* ------------------------------------------------------------ the search
\* getSegmentByteRange: the range the fetched segment reports, or an error.
getSegmentByteRange(f, index, ok) ==
    IF ok THEN [ok |-> TRUE, range |-> f.ranges[index]]
    ELSE [ok |-> FALSE, range |-> [Start |-> 0, End |-> 0]]

Probed(st, index, answer) ==
    [st EXCEPT !.probes = Append(@, [index |-> index, ok |-> answer.ok,
                                     range |-> answer.range,
                                     window |-> st.byteRange])]

SearchFound(st, index, range) ==
    [st EXCEPT !.pc = "done",
               !.result = [status |-> "found", SegmentIndex |-> index, Range |-> range]]

SearchError(st, kind, index) ==
    [st EXCEPT !.pc = "done",
               !.result = [status |-> kind, SegmentIndex |-> index,
                           Range |-> [Start |-> 0, End |-> 0]]]

\* The window left of a probed range, and the window right of it.
SearchLowerKeeps(st, index, range) ==
    [st EXCEPT !.pc = "loop",
               !.indexRange = [Start |-> st.indexRange.Start, End |-> index + 1],
               !.byteRange = [Start |-> st.byteRange.Start, End |-> range.Start]]

SearchLower(st, index, range) ==
    [st EXCEPT !.pc = "loop",
               !.indexRange = [Start |-> st.indexRange.Start, End |-> index],
               !.byteRange = [Start |-> st.byteRange.Start, End |-> range.Start]]

SearchHigherSame(st, index, range) ==
    [st EXCEPT !.pc = "loop",
               !.indexRange = [Start |-> index, End |-> st.indexRange.End],
               !.byteRange = [Start |-> range.End, End |-> st.byteRange.End]]

SearchHigher(st, index, range) ==
    [st EXCEPT !.pc = "loop",
               !.indexRange = [Start |-> index + 1, End |-> st.indexRange.End],
               !.byteRange = [Start |-> range.End, End |-> st.byteRange.End]]

\* interpolationSearch up to the initial guess.
searchStart(f, target) ==
    LET st == [NoSearch EXCEPT !.indexRange = [Start |-> 0, End |-> f.n],
                               !.byteRange = [Start |-> 0, End |-> f.fileSize]]
    IN  IF f.n = 0 THEN SearchError(st, "no segments", -1)
        ELSE IF target < 0 \/ target >= f.fileSize
        THEN SearchError(st, "out of bounds", -1)
        ELSE [st EXCEPT !.pc = "guess"]

\* The probe of the estimated index: a hit returns; a miss narrows the
\* window, from the whole file, to one side of the probed range; an error
\* of the fetch is dropped.
searchInitialGuess(f, target, st, ok) ==
    LET estimatedIdx == estimateSegmentIndex(f, target)
        answer == getSegmentByteRange(f, estimatedIdx, ok)
        st1 == Probed(st, estimatedIdx, answer)
    IN  IF ~(estimatedIdx >= 0 /\ estimatedIdx < f.n) THEN [st EXCEPT !.pc = "loop"]
        ELSE IF ~answer.ok THEN [st1 EXCEPT !.pc = "loop"]
        ELSE IF Contains(answer.range, target)
        THEN SearchFound(st1, estimatedIdx, answer.range)
        ELSE IF target < answer.range.Start
        THEN SearchLower(st1, estimatedIdx, answer.range)
        ELSE SearchHigher(st1, estimatedIdx, answer.range)

\* int(indexRange.Start + int64(offsetFromStart / bytesPerSegment)), clamped
\* to the index window.
guessedIndex(st, target) ==
    LET guessedOffset == ((target - st.byteRange.Start) * Count(st.indexRange))
                            \div Count(st.byteRange)
    IN  Min(Max(st.indexRange.Start + guessedOffset, st.indexRange.Start),
            st.indexRange.End - 1)

\* One pass of the loop of interpolationSearch.
searchLoop(f, target, st, done, ok) ==
    IF done THEN SearchError(st, "context", -1)
    ELSE IF ~Contains(st.byteRange, target) \/ Count(st.indexRange) <= 0
    THEN SearchError(st, "cannot find", -1)
    ELSE LET g == guessedIndex(st, target)
             answer == getSegmentByteRange(f, g, ok)
             st1 == Probed(st, g, answer)
         IN  IF ~answer.ok THEN SearchError(st1, "fetch", g)
             ELSE IF ~ContainsRange(st.byteRange, answer.range)
             THEN SearchError(st1, "corrupt", g)
             ELSE IF Contains(answer.range, target)
             THEN SearchFound(st1, g, answer.range)
             ELSE IF target < answer.range.Start
             THEN SearchLower(st1, g, answer.range)
             ELSE SearchHigher(st1, g, answer.range)

\* interpolationSearch run to its return, the context and the fetches
\* behaving the same way throughout.
RECURSIVE searchRun(_, _, _, _, _)
searchRun(f, target, st, done, ok) ==
    IF st.pc = "done" THEN st
    ELSE IF st.pc = "guess"
    THEN searchRun(f, target, searchInitialGuess(f, target, st, ok), done, ok)
    ELSE searchRun(f, target, searchLoop(f, target, st, done, ok), done, ok)

interpolationSearch(f, target, done, ok) ==
    searchRun(f, target, searchStart(f, target), done, ok).result

\* ------------------------------------------------------------ streams
NewSegmentsStream(base) == [base |-> base, read |-> 0, open |-> TRUE, ended |-> FALSE]

SegmentsStreamClose(s) == [s EXCEPT !.open = FALSE]

\* 1 for a stream that exists and is not closed.
Unclosed(s) == IF s # NilStream /\ s.open THEN 1 ELSE 0

\* The bytes of segment i, and of the segments from i on, each byte named by
\* the segment it is decoded from and its place in that segment's body.
SegmentBody(f, i) == [k \in 1 .. Count(f.ranges[i]) |-> <<i, k - 1>>]

RECURSIVE BytesFrom(_, _)
BytesFrom(f, i) == IF i >= f.n THEN <<>> ELSE SegmentBody(f, i) \o BytesFrom(f, i + 1)

\* What one Read of len bytes on s may return: all that is asked for and
\* left; fewer bytes with the error of a failed fetch; or fewer bytes
\* because the output channel was closed early (on cancellation), after
\* which it stays closed.
SegmentsStreamRead(f, s, len) ==
    LET want == Min(len, Len(BytesFrom(f, s.base)) - s.read)
    IN  IF s.ended
        THEN {[n |-> 0, err |-> e, ended |-> TRUE] : e \in {"EOF", "fetch"}}
        ELSE {[n |-> want, err |-> IF want = 0 THEN "EOF" ELSE "nil", ended |-> want = 0]}
             \cup {[n |-> k, err |-> "fetch", ended |-> FALSE] : k \in 0 .. Max(want - 1, 0)}
             \cup {[n |-> k, err |-> IF k = 0 THEN "EOF" ELSE "nil", ended |-> TRUE] :
                       k \in 0 .. want - 1}

\* The n bytes a Read of s hands out, and s after it.
ReadBytes(f, s, n) == SubSeq(BytesFrom(f, s.base), s.read + 1, s.read + n)
AfterRead(s, o) == [s EXCEPT !.read = @ + o.n, !.ended = o.ended]

\* io.CopyN(io.Discard, stream, skipBytes) in createSegmentsStream: all
\* skipped; io.EOF, and the stream is returned as it is; any other error,
\* and the stream is closed and not returned.
Skipped(s, o, skipBytes) ==
    IF o.n = skipBytes \/ o.err \in {"nil", "EOF"}
    THEN [stream |-> AfterRead(s, o), err |-> "nil", made |-> NilStream]
    ELSE [stream |-> NilStream, err |-> "skip", made |-> SegmentsStreamClose(AfterRead(s, o))]

\* The bytes createSegmentsStream discards of the stream it has created.
SkipBytesNone(startPos, range) == 0
SkipBytes(startPos, range) == startPos - range.Start

\* createSegmentsStream(startPos, _): the results it may return; made is a
\* stream it created and does not return.
createSegmentsStream(f, startPos, done) ==
    IF startPos = 0
    THEN {[stream |-> NewSegmentsStream(0), err |-> "nil", made |-> NilStream]}
    ELSE UNION {
        LET result == interpolationSearch(f, startPos, done, ok)
            s == NewSegmentsStream(result.SegmentIndex)
            skipBytes == SkipBytes(startPos, result.Range)
        IN  IF result.status # "found"
            THEN {[stream |-> NilStream, err |-> result.status, made |-> NilStream]}
            ELSE IF skipBytes > 0
            THEN {Skipped(s, o, skipBytes) : o \in SegmentsStreamRead(f, s, skipBytes)}
            ELSE {[stream |-> s, err |-> "nil", made |-> NilStream]}
        : ok \in BOOLEAN}

\* io.ReadFull over one stream whose Read returned o.
ReadFull(o, len) ==
    [n |-> o.n,
     err |-> IF o.n = len THEN "nil"
             ELSE IF o.err \in {"nil", "EOF"}
             THEN (IF o.n = 0 THEN "EOF" ELSE "ErrUnexpectedEOF")
             ELSE o.err]

\* What a call returned: n and err (for Seek, n is the position returned),
\* the bytes it put into p, and in at and len: for Read the position it
\* read at, for ReadAt off and len(p), for Seek newPos before its tests.
Returned(op, at, len, n, err, bytes) ==
    [op |-> op, at |-> at, len |-> len, n |-> n, err |-> err, bytes |-> bytes]

\* ------------------------------------------------------------ integers
IntMin == -(2 ^ (IntBits - 1))
IntMax == 2 ^ (IntBits - 1) - 1
Int64(x) == ((x - IntMin) % (2 ^ IntBits)) + IntMin

\* ------------------------------------------------------------ FileStream
notFile == <<segVars, searchVars, resolveVars, otherVars>>

FileStreamRead(len) ==
    /\ \/ /\ fsClosed
          /\ lastOp' = Returned("Read", position, 0, 0, "closed", <<>>)
          /\ UNCHANGED <<position, stream, orphaned>>
       \/ /\ ~fsClosed
          /\ position >= file.fileSize
          /\ lastOp' = Returned("Read", position, 0, 0, "EOF", <<>>)
          /\ UNCHANGED <<position, stream, orphaned>>
       \/ /\ ~fsClosed
          /\ position < file.fileSize
          /\ \E c \in (IF stream = NilStream
                       THEN createSegmentsStream(file, position, fsCtxDone)
                       ELSE {[stream |-> stream, err |-> "nil", made |-> NilStream]}) :
                IF c.err # "nil"
                THEN /\ lastOp' = Returned("Read", position, 0, 0, c.err, <<>>)
                     /\ orphaned' = [orphaned EXCEPT !["Read"] = @ + Unclosed(c.made)]
                     /\ UNCHANGED <<position, stream>>
                ELSE \E o \in SegmentsStreamRead(file, c.stream, len) :
                     /\ stream' = AfterRead(c.stream, o)
                     /\ position' = Int64(position + o.n)
                     /\ lastOp' = Returned("Read", position, 0, o.n, o.err,
                                           ReadBytes(file, c.stream, o.n))
                     /\ UNCHANGED orphaned
    /\ UNCHANGED <<file, fsClosed, fsCtxDone, readAt, notFile>>

\* newPos of Seek before the tests on it.
SeekTarget(offset, whence) ==
    CASE whence = "SeekStart" -> offset
      [] whence = "SeekCurrent" -> Int64(position + offset)
      [] whence = "SeekEnd" -> Int64(file.fileSize + offset)
      [] OTHER -> 0

SeekClampNever(newPos, fileSize) == newPos
SeekClamp(newPos, fileSize) == IF newPos > fileSize THEN fileSize ELSE newPos

\* What Seek does to the stream it replaces before it drops it.
SeekReplacesUnclosed(s) == s
SeekReplaces(s) == SegmentsStreamClose(s)

\* The test of Seek that makes it drop the stream and move.
PositionChangedAlways(newPos) == TRUE
PositionChanged(newPos) == newPos # position

FileStreamSeek(offset, whence) ==
    LET target == SeekTarget(offset, whence)
        newPos == SeekClamp(target, file.fileSize)
    IN  /\ IF whence = "other"
           THEN /\ lastOp' = Returned("Seek", 0, 0, position, "invalid whence", <<>>)
                /\ UNCHANGED <<position, stream, orphaned>>
           ELSE IF target < 0
           THEN /\ lastOp' = Returned("Seek", target, 0, position, "negative position", <<>>)
                /\ UNCHANGED <<position, stream, orphaned>>
           ELSE IF PositionChanged(newPos)
           THEN /\ position' = newPos
                /\ stream' = NilStream
                /\ orphaned' = [orphaned EXCEPT
                                   !["Read"] = @ + (IF stream # NilStream
                                                    THEN Unclosed(SeekReplaces(stream))
                                                    ELSE 0)]
                /\ lastOp' = Returned("Seek", target, 0, newPos, "nil", <<>>)
           ELSE /\ lastOp' = Returned("Seek", target, 0, position, "nil", <<>>)
                /\ UNCHANGED <<position, stream, orphaned>>
        /\ UNCHANGED <<file, fsClosed, fsCtxDone, readAt, notFile>>

\* The context of the File Stream after the s.cancel() of Close.
CancelNothing(done) == done
Cancel(done) == TRUE

FileStreamClose ==
    /\ IF fsClosed
       THEN UNCHANGED <<fsClosed, fsCtxDone, stream>>
       ELSE /\ fsClosed' = TRUE
            /\ fsCtxDone' = Cancel(fsCtxDone)
            /\ stream' = IF stream # NilStream THEN SegmentsStreamClose(stream) ELSE stream
    /\ lastOp' = Returned("Close", 0, 0, 0, "nil", <<>>)
    /\ UNCHANGED <<file, position, readAt, orphaned, notFile>>

\* ReadAt up to the creation of its stream.  Calls in progress are told
\* apart by a number; a new call takes the lowest number not in use.  Of
\* len(p) this part uses only the buffer size it makes of it, so len(p) is
\* drawn where it is first used, in the second part.
FileStreamReadAt(c, off) ==
    /\ readAt[c].pc = "idle"
    /\ \A b \in 1 .. c - 1 : readAt[b].pc # "idle"
    /\ IF off < 0 \/ off >= file.fileSize
       THEN /\ lastOp' = Returned("ReadAt", off, 0, 0, "EOF", <<>>)
            /\ UNCHANGED <<readAt, orphaned>>
       ELSE \E r \in createSegmentsStream(file, off, fsCtxDone) :
                IF r.err # "nil"
                THEN /\ lastOp' = Returned("ReadAt", off, 0, 0, r.err, <<>>)
                     /\ orphaned' = [orphaned EXCEPT !["ReadAt"] = @ + Unclosed(r.made)]
                     /\ UNCHANGED readAt
                ELSE /\ readAt' = [readAt EXCEPT ![c] = [pc |-> "opened", off |-> off,
                                                         stream |-> r.stream]]
                     /\ UNCHANGED <<lastOp, orphaned>>
    /\ UNCHANGED <<file, position, stream, fsClosed, fsCtxDone, notFile>>

\* What the deferred call of ReadAt does to its stream.
ReadAtDeferredNothing(s) == s
ReadAtDeferred(s) == SegmentsStreamClose(s)

\* io.ReadFull on the private stream, the deferred Close, and the return.
FileStreamReadAtReturn(c, len) ==
    /\ readAt[c].pc = "opened"
    /\ \E o \in SegmentsStreamRead(file, readAt[c].stream, len) :
         /\ lastOp' = Returned("ReadAt", readAt[c].off, len,
                               ReadFull(o, len).n, ReadFull(o, len).err,
                               ReadBytes(file, readAt[c].stream, o.n))
         /\ orphaned' = [orphaned EXCEPT
                            !["ReadAt"] = @ + Unclosed(ReadAtDeferred(AfterRead(readAt[c].stream, o)))]
    /\ readAt' = [readAt EXCEPT ![c] = NoReadAt]
    /\ UNCHANGED <<file, position, stream, fsClosed, fsCtxDone, notFile>>

\* The context the File Stream was built under is cancelled by its owner.
FileStreamCancel ==
    /\ ~fsCtxDone
    /\ fsCtxDone' = TRUE
    /\ UNCHANGED <<file, position, stream, fsClosed, readAt, orphaned, lastOp, notFile>>

\* A Segments Stream on its own that never starts.
StreamIdle == StreamInit /\ nsegs = 0 /\ maxConn = 1 /\ bufferSize = 1

\* Calls of Seek: to every position of the largest file and one before and
\* behind; relative by one step or by the largest and smallest integer; and
\* with a whence that is none of the three.
SeekCalls ==
    {<<offset, "SeekStart">> : offset \in -1 .. MaxFileSegs * MaxDecoded + 1}
    \cup ({IntMin, -1, 0, 1, IntMax} \X {"SeekCurrent", "SeekEnd"})
    \cup {<<0, "other">>}

FileInit ==
    /\ file \in StreamedFiles
    /\ NewFileStream
    /\ SearchIdle
    /\ StreamIdle
    /\ ResolveIdle
    /\ OtherIdle

FileNext ==
    \/ \E len \in 1 .. MaxReadLen : FileStreamRead(len)
    \/ \E call \in SeekCalls : FileStreamSeek(call[1], call[2])
    \/ FileStreamClose
    \/ \E c \in ReadAtCalls, off \in -1 .. file.fileSize : FileStreamReadAt(c, off)
    \/ \E c \in ReadAtCalls, len \in 1 .. MaxReadLen : FileStreamReadAtReturn(c, len)
    \/ FileStreamCancel

FileSpec == FileInit /\ [][FileNext]_vars

\* ------------------------------------------------------------ File Stream: properties
\* Bytes at .. at + n - 1 of the file.
FileBytes(f, at, n) == SubSeq(BytesFrom(f, 0), at + 1, at + n)

PositionInRange == 0 <= position /\ position <= file.fileSize

\* A step that ends with Seek's error for a negative newPos moves nothing,
\* and a step that ends with a Read called at or beyond FileSize leaves
\* s.stream as it was and creates no stream.
EndStepsMoveNothing ==
    /\ lastOp'.err = "negative position" => position' = position
    /\ (lastOp'.op = "Read" /\ lastOp'.at >= file.fileSize) =>
           (stream' = stream /\ orphaned' = orphaned /\ position' = position)

C12_OneStreamOwned ==
    /\ orphaned["Read"] = 0
    /\ orphaned["Read"] + Unclosed(stream) <= 1
    /\ fsClosed => orphaned["Read"] + Unclosed(stream) = 0

\* Close has closed the stream a Read created in the middle of the file.
C12_Witness ==
    /\ fsClosed
    /\ stream # NilStream /\ ~stream.open /\ stream.base > 0
    /\ lastOp.op = "Close"

\* A step in which a ReadAt starts or returns leaves position, stream and
\* closed flag as they are.
ReadAtStepIsStateless ==
    (readAt' # readAt \/ lastOp'.op = "ReadAt") =>
        UNCHANGED <<position, stream, fsClosed>>

\* C13: ReadAt changes neither the position nor s.stream; no stream made by
\* ReadAt is left unclosed when it returns; and whatever bytes a ReadAt
\* returns are the bytes of the file at its own offset, whatever other calls
\* are in progress.
C13_ReadAtStateless ==
    /\ [](/\ orphaned["ReadAt"] = 0
          /\ lastOp.op = "ReadAt" =>
                 lastOp.bytes = FileBytes(file, lastOp.at, Len(lastOp.bytes)))
    /\ [][ReadAtStepIsStateless]_vars

\* Two ReadAt calls at different offsets are in progress while s.stream is
\* open in the middle of the file.
C13_Witness ==
    /\ readAt[1].pc = "opened" /\ readAt[2].pc = "opened"
    /\ readAt[1].off # readAt[2].off
    /\ stream # NilStream /\ stream.open /\ position > 0
    /\ lastOp.op = "ReadAt" /\ lastOp.n > 0

\* C14: a ReadAt that returns without error has returned len(p) bytes, the
\* bytes off .. off + len - 1 of the file; Seek(off, SeekStart) makes off the
\* position; and what a Read returns are the bytes of the file from the
\* position on, behind which it leaves the position: so both ways of
\* reading yield the same bytes.
C14_ReadAtEqualsSeekRead ==
    /\ (lastOp.op = "ReadAt" /\ lastOp.err = "nil") =>
           (/\ lastOp.n = lastOp.len
            /\ lastOp.bytes = FileBytes(file, lastOp.at, lastOp.len))
    /\ (lastOp.op = "Seek" /\ lastOp.err = "nil"
           /\ lastOp.at >= 0 /\ lastOp.at <= file.fileSize) => position = lastOp.at
    /\ lastOp.op = "Read" =>
           (/\ Len(lastOp.bytes) = lastOp.n
            /\ lastOp.bytes = FileBytes(file, lastOp.at, lastOp.n)
            /\ position = lastOp.at + lastOp.n)

\* A ReadAt of two bytes from the middle of the first segment into the
\* second has returned them.
C14_Witness ==
    /\ lastOp.op = "ReadAt" /\ lastOp.err = "nil"
    /\ lastOp.at = 1 /\ lastOp.len = 2
    /\ file.ranges[0].End = 2

\* ------------------------------------------------------------ the search, probe by probe
\* Files the search is run on: segments of any declared size from 1 to
\* SegBytes whose bodies decode to 1 or to LargeSegment bytes and tile the
\* file.
SearchedFiles ==
    UNION {{TiledFile(n, bytes, sizes) :
                bytes \in [0 .. n - 1 -> 1 .. SegBytes],
                sizes \in [0 .. n - 1 -> {1, LargeSegment}]} : n \in 1 .. MaxSearchSegs}

\* Ranges a fetched segment of a damaged file may report.
AnyRanges ==
    {[Start |-> s, End |-> e] : s \in 0 .. MaxCorruptByte + 1,
                                e \in 0 .. MaxCorruptByte + 1} \ 
    {r \in [Start : 0 .. MaxCorruptByte + 1, End : 0 .. MaxCorruptByte + 1] :
        r.Start > r.End}

\* Files whose segments report any ranges at all.
CorruptFiles ==
    UNION {[n : {n},
            bytes : [0 .. n - 1 -> 1 .. SegBytes],
            ranges : [0 .. n - 1 -> AnyRanges],
            fileSize : 1 .. MaxCorruptByte] : n \in 1 .. MaxCorruptSegs}

notSearch == <<segVars, resolveVars, otherVars, position, fsClosed, readAt, orphaned, lastOp>>

\* createSegmentsStream(startPos) calls interpolationSearch(startPos).
searchCall ==
    /\ search.pc = "idle"
    /\ search' = searchStart(file, targetByte)
    /\ UNCHANGED <<file, targetByte, fsCtxDone, stream, notSearch>>

\* The initial guess and its fetch.
searchGuess ==
    /\ search.pc = "guess"
    /\ \E ok \in BOOLEAN : search' = searchInitialGuess(file, targetByte, search, ok)
    /\ UNCHANGED <<file, targetByte, fsCtxDone, stream, notSearch>>

\* One pass of the loop and its fetch.
searchProbe ==
    /\ search.pc = "loop"
    /\ \E ok \in BOOLEAN : search' = searchLoop(file, targetByte, search, fsCtxDone, ok)
    /\ UNCHANGED <<file, targetByte, fsCtxDone, stream, notSearch>>

\* The search returns to createSegmentsStream, which makes a stream of the
\* segment found, or returns the error.
searchReturn ==
    /\ search.pc = "done"
    /\ search' = [search EXCEPT !.pc = "returned"]
    /\ stream' = IF search.result.status = "found"
                 THEN NewSegmentsStream(search.result.SegmentIndex)
                 ELSE stream
    /\ UNCHANGED <<file, targetByte, fsCtxDone, notSearch>>

\* The context of the File Stream is cancelled while the search runs.
searchCancel ==
    /\ ~fsCtxDone
    /\ search.pc \in {"guess", "loop"}
    /\ fsCtxDone' = TRUE
    /\ UNCHANGED <<file, targetByte, search, stream, notSearch>>

SearchInit ==
    /\ file \in SearchedFiles \cup CorruptFiles
    /\ targetByte \in -1 .. file.fileSize
    /\ search = NoSearch
    /\ NewFileStream
    /\ StreamIdle
    /\ ResolveIdle
    /\ OtherIdle

SearchNext ==
    \/ searchCall
    \/ searchGuess
    \/ searchProbe
    \/ searchReturn
    \/ searchCancel

SearchSpec == SearchInit /\ [][SearchNext]_vars

\* ------------------------------------------------------------ the search: properties
RECURSIVE CeilLog2(_)
CeilLog2(n) == IF n <= 1 THEN 0 ELSE 1 + CeilLog2((n + 1) \div 2)

AllProbesAnswered == \A k \in 1 .. Len(search.probes) : search.probes[k].ok

\* C15: on a file whose segments tile [0, FileSize), a search whose fetches
\* all succeed has made at most ceil(log2(SegmentCount)) + 1 probes, the
\* initial guess included.
C15_ProbesWithinLogBound ==
    (Tiles(file) /\ AllProbesAnswered) =>
        Len(search.probes) <= CeilLog2(file.n) + 1

\* C16: once a probe (the initial guess included) has answered a range that
\* does not contain the target and is not inside the byte window of that
\* probe, the search has ended with the corrupt-file error for the probed
\* index and no stream exists.
C16_CorruptProbeEndsSearch ==
    \A k \in 1 .. Len(search.probes) :
        LET p == search.probes[k]
        IN  (p.ok /\ ~Contains(p.range, targetByte) /\ ~ContainsRange(p.window, p.range)) =>
                /\ search.pc \in {"done", "returned"}
                /\ search.result.status = "corrupt"
                /\ search.result.SegmentIndex = p.index
                /\ stream = NilStream

\* ------------------------------------------------------------ names
\* A name is an extension, its letter case, and whether slashes surround
\* it; the stem is the same for all.  NoName is the empty string.
Exts == {"rar", "r00", "7z", "mkv"}
Names == [ext : Exts, caps : BOOLEAN, slash : BOOLEAN]
NoName == [ext |-> "", caps |-> FALSE, slash |-> FALSE]
Trim(name) == [name EXCEPT !.slash = FALSE]
ToLower(name) == [name EXCEPT !.caps = FALSE]
EqualFold(a, b) == ToLower(a) = ToLower(b)

\* Names of NZB files, of content-file records, and of archive entries.
FileNames == {n \in Names : ~n.slash /\ n.ext \in {"rar", "mkv"}}
EntryNames == {n \in Names : ~n.slash}

\* Index of the first element of seq that satisfies Test, or 0.
First(seq, Test(_)) ==
    IF \E i \in 1 .. Len(seq) : Test(seq[i])
    THEN CHOOSE i \in 1 .. Len(seq) :
            Test(seq[i]) /\ \A j \in 1 .. i - 1 : ~Test(seq[j])
    ELSE 0

\* findFileByName: indices of the NZB file and of the content-file record
\* (0: nil).
findFileByName(nzbFiles, contentFiles, name0) ==
    LET name == Trim(name0)
        Named(cf) == EqualFold(cf.Name, name) \/ EqualFold(cf.Alias, name)
        cf == First(contentFiles, Named)
        lookupName == IF cf # 0 THEN contentFiles[cf].Name ELSE name
        Looked(f) == EqualFold(f, lookupName)
        f == First(nzbFiles, Looked)
    IN  IF f = 0 THEN [file |-> 0, contentFile |-> 0]
        ELSE [file |-> f, contentFile |-> cf]

\* NZB documents and persisted content-file records of a call.
NzbFiles == UNION {[1 .. n -> FileNames] : n \in 0 .. MaxNzbFiles}
ContentFiles ==
    UNION {[1 .. n -> [Name : FileNames, Alias : FileNames \cup {NoName}]] :
              n \in 0 .. MaxContentFiles}

\* ------------------------------------------------------------ archives
\* What an archive lists: entries with a name and what IsStreamable()
\* answers for each.
Entries == [name : EntryNames, streamable : BOOLEAN]
Listings == UNION {[1 .. n -> Entries] : n \in 0 .. MaxEntries}

\* getArchiveBaseName: the file type of a name, and the key of its group
\* (the base name keeps the case of the name).
ArchiveTypeOf(name) ==
    CASE name.ext \in {"rar", "r00"} -> "RAR"
      [] name.ext = "7z" -> "7z"
      [] OTHER -> "plain"
GroupKey(name) == <<name.caps, ArchiveTypeOf(name)>>

\* GetRARVolumeNumber and Get7zVolumeNumber of a grouped name.
VolumeOf(name) == IF name.ext = "r00" THEN 1 ELSE 0

\* groupArchiveVolumes: the groups, each the indices of its files sorted by
\* volume number (stable).
GroupFiles(list, key) ==
    LET InGroup(i) == GroupKey(list[i].name) = key
        Vol0(i) == InGroup(i) /\ VolumeOf(list[i].name) = 0
        Vol1(i) == InGroup(i) /\ VolumeOf(list[i].name) = 1
        indices == [i \in 1 .. Len(list) |-> i]
    IN  SelectSeq(indices, Vol0) \o SelectSeq(indices, Vol1)
groupArchiveVolumes(list) ==
    {GroupFiles(list, key) :
        key \in {GroupKey(list[i].name) :
                    i \in {j \in 1 .. Len(list) : ArchiveTypeOf(list[j].name) # "plain"}}}

\* The groups with a file of the target name.
MatchedGroups(list, targetName) ==
    {g \in groupArchiveVolumes(list) :
        \E k \in 1 .. Len(g) : EqualFold(list[g[k]].name, targetName)}

\* The loop over matchedGroup.Files: the indices whose IsStreamable() was
\* called and answered true, and whether the loop ran through.
GroupStreamableAll(list, g) == TRUE
GroupStreamable(list, g) == \A k \in 1 .. Len(g) : list[g[k]].streamable
GroupConfirmed(list, g) ==
    {g[k] : k \in {k \in 1 .. Len(g) :
                      \A j \in 1 .. k : list[g[j]].streamable}}

\* Archive.Open: RARArchive.Open only stores the password; a 7z archive
\* reads its headers and may fail.
RAROpen == {TRUE}
SevenZipOpen == BOOLEAN
ArchiveOpen(type) == IF type = "RAR" THEN RAROpen ELSE SevenZipOpen

\* Resources: the Virtual FS and the Archive Adapter of a level; level 0 is
\* the archive of the NZB, level k the archive inside it reached by k names.
FS(k) == <<"fs", k>>
Adapter(k) == <<"adapter", k>>
Archive(k) == <<"archive", k, 0>>
Entry(k, i) == <<"entry", k, i>>
Reader == <<"reader", 0>>

\* Archive.Close: closes the Virtual FS the adapter reads from.
ArchiveClose(k) == {Adapter(k), FS(k)}

notResolve == <<segVars, fileVars, searchVars, otherVars>>

\* A return of StreamByContentPath itself.
resolveReturns(kind, err) ==
    /\ callPc' = "done"
    /\ returned' = Returns(kind, err, 0)

\* A return of streamTargetFromArchive at the current level with an error:
\* its caller has the archive of that level to close.
descentFails(err) ==
    /\ callPc' = "unwind"
    /\ returned' = Returns("error", err, 0)
    /\ files' = <<>>

\* StreamByContentPath up to the fetch of the archive header.
StreamByContentPath ==
    /\ callPc = "idle"
    /\ \E len \in 0 .. MaxPath, name \in Names \cup {NoName},
          nzbFiles \in NzbFiles, contentFiles \in ContentFiles :
          LET found == findFileByName(nzbFiles, contentFiles, name)
          IN  IF len = 0 \/ name = NoName
              THEN resolveReturns("error", "invalid content path") /\ UNCHANGED pathLeft
              ELSE IF found.file = 0
              THEN resolveReturns("error", "no file matching") /\ UNCHANGED pathLeft
              ELSE IF len = 1
              THEN /\ \E ok \in BOOLEAN :
                        IF ok THEN resolveReturns("plain stream", "nil")
                        ELSE resolveReturns("error", "plain file")
                   /\ UNCHANGED pathLeft
              ELSE IF found.contentFile = 0
              THEN resolveReturns("panic", "nil pointer dereference") /\ UNCHANGED pathLeft
              ELSE /\ callPc' = "header"
                   /\ pathLeft' = len - 1
                   /\ UNCHANGED returned
    /\ UNCHANGED <<level, archiveTypes, files, created, closedSet, confirmed, touched,
                   closeLog, closeFails, closeErr, notResolve>>

\* The header is fetched and sniffed, the Virtual FS and the adapter are made.
resolveHeader ==
    /\ callPc = "header"
    /\ \E fetched \in BOOLEAN, fileType \in {"RAR", "7z", "plain"} :
          IF ~fetched
          THEN /\ resolveReturns("error", "failed to fetch archive header")
               /\ UNCHANGED <<created, archiveTypes>>
          ELSE IF fileType = "plain"
          THEN /\ resolveReturns("error", "not an archive")
               /\ created' = created \cup {FS(0)}
               /\ UNCHANGED archiveTypes
          ELSE /\ callPc' = "open"
               /\ created' = created \cup {FS(0), Adapter(0)}
               /\ archiveTypes' = <<fileType>>
               /\ UNCHANGED returned
    /\ UNCHANGED <<pathLeft, level, files, closedSet, confirmed, touched,
                   closeLog, closeFails, closeErr, notResolve>>

\* archive.Open and archive.IsStreamable of the archive of the NZB.
resolveOpen ==
    /\ callPc = "open"
    /\ \E opened \in ArchiveOpen(archiveTypes[1]), streamable \in BOOLEAN :
          IF ~opened
          THEN /\ resolveReturns("error", "failed to open archive")
               /\ UNCHANGED <<closedSet, confirmed>>
          ELSE IF ~streamable
          THEN /\ resolveReturns("error", "non-streamable archive")
               /\ closedSet' = closedSet \cup ArchiveClose(0)
               /\ UNCHANGED confirmed
          ELSE /\ callPc' = "list"
               /\ confirmed' = confirmed \cup {Archive(0)}
               /\ UNCHANGED <<returned, closedSet>>
    /\ UNCHANGED <<pathLeft, level, archiveTypes, files, created, touched,
                   closeLog, closeFails, closeErr, notResolve>>

\* streamTargetFromArchive: archive.GetFiles().
descentList ==
    /\ callPc = "list"
    /\ touched' = touched \cup {Archive(level)}
    /\ \E ok \in BOOLEAN, list \in Listings :
          IF ok
          THEN callPc' = "match" /\ files' = list /\ UNCHANGED returned
          ELSE descentFails("failed to get archive files")
    /\ UNCHANGED <<pathLeft, level, archiveTypes, created, closedSet, confirmed,
                   closeLog, closeFails, closeErr, notResolve>>

\* The matched entry ends the path: it is opened if it is streamable, and
\* every caller up to the first wraps the stream with its inner archive.
descentLeaf(i) ==
    IF ~files[i].streamable
    THEN /\ descentFails("file is not streamable")
         /\ UNCHANGED <<confirmed, touched>>
    ELSE /\ confirmed' = confirmed \cup {Entry(level, i)}
         /\ touched' = touched \cup {Entry(level, i)}
         /\ \E ok \in BOOLEAN :
               IF ok
               THEN /\ callPc' = "done"
                    /\ returned' = Returns("stream", "nil", level)
                    /\ files' = <<>>
               ELSE descentFails("failed to open")

\* The matched entry is an archive to descend into: its volumes are
\* collected and checked, and the inner archive is made over them.
descentInner(i, targetName) ==
    IF ~files[i].streamable
    THEN /\ descentFails("inner archive is not streamable")
         /\ UNCHANGED <<confirmed, touched, created, closedSet, archiveTypes>>
    ELSE IF MatchedGroups(files, targetName) = {}
    THEN /\ confirmed' = confirmed \cup {Entry(level, i)}
         /\ touched' = touched \cup {Entry(level, i)}
         /\ IF ArchiveTypeOf(files[i].name) = "plain"
            THEN /\ descentFails("unsupported inner archive type")
                 /\ created' = created \cup {FS(level + 1)}
                 /\ closedSet' = closedSet \cup {FS(level + 1)}
                 /\ UNCHANGED archiveTypes
            ELSE /\ callPc' = "inner"
                 /\ created' = created \cup {FS(level + 1), Adapter(level + 1)}
                 /\ archiveTypes' = Append(archiveTypes, ArchiveTypeOf(files[i].name))
                 /\ UNCHANGED <<returned, files, closedSet>>
    ELSE \E g \in MatchedGroups(files, targetName) :
            IF ~GroupStreamable(files, g)
            THEN /\ descentFails("inner archive part is not streamable")
                 /\ confirmed' = confirmed \cup {Entry(level, i)}
                                    \cup {Entry(level, j) : j \in GroupConfirmed(files, g)}
                 /\ UNCHANGED <<touched, created, closedSet, archiveTypes>>
            ELSE /\ callPc' = "inner"
                 /\ confirmed' = confirmed \cup {Entry(level, i)}
                                    \cup {Entry(level, j) : j \in GroupConfirmed(files, g)}
                 /\ touched' = touched \cup {Entry(level, g[k]) : k \in 1 .. Len(g)}
                 /\ created' = created \cup {FS(level + 1), Adapter(level + 1)}
                 /\ archiveTypes' = Append(archiveTypes, ArchiveTypeOf(files[g[1]].name))
                 /\ UNCHANGED <<returned, files, closedSet>>

\* streamTargetFromArchive from the scan of the entries to the inner archive.
descentMatch ==
    /\ callPc = "match"
    /\ \E target \in Names :
          LET targetName == Trim(target)
              Matches(f) == EqualFold(f.name, targetName)
              i == First(files, Matches)
          IN  /\ pathLeft' = pathLeft - 1
              /\ IF i = 0
                 THEN /\ descentFails("no file matching")
                      /\ UNCHANGED <<confirmed, touched, created, closedSet, archiveTypes>>
                 ELSE IF pathLeft = 1
                 THEN /\ descentLeaf(i)
                      /\ UNCHANGED <<created, closedSet, archiveTypes>>
                 ELSE descentInner(i, targetName)
    /\ UNCHANGED <<level, closeLog, closeFails, closeErr, notResolve>>

\* innerArchive.Open, innerArchive.IsStreamable, and the recursive call.
descentOpen ==
    /\ callPc = "inner"
    /\ \E opened \in ArchiveOpen(archiveTypes[level + 2]), streamable \in BOOLEAN :
          IF ~opened
          THEN /\ descentFails("failed to open inner archive")
               /\ closedSet' = closedSet \cup ArchiveClose(level + 1)
               /\ UNCHANGED <<confirmed, level>>
          ELSE IF ~streamable
          THEN /\ descentFails("non-streamable inner archive")
               /\ closedSet' = closedSet \cup ArchiveClose(level + 1)
               /\ UNCHANGED <<confirmed, level>>
          ELSE /\ callPc' = "list"
               /\ level' = level + 1
               /\ confirmed' = confirmed \cup {Archive(level + 1)}
               /\ files' = <<>>
               /\ UNCHANGED <<returned, closedSet>>
    /\ UNCHANGED <<pathLeft, archiveTypes, created, touched,
                   closeLog, closeFails, closeErr, notResolve>>

\* The caller of a failed streamTargetFromArchive closes the archive it
\* passed and returns the error: an outer streamTargetFromArchive, or
\* StreamByContentPath at the end.
descentUnwind ==
    /\ callPc = "unwind"
    /\ closedSet' = closedSet \cup ArchiveClose(level)
    /\ IF level = 0
       THEN callPc' = "done" /\ UNCHANGED level
       ELSE level' = level - 1 /\ UNCHANGED callPc
    /\ UNCHANGED <<pathLeft, archiveTypes, files, created, confirmed, touched, returned,
                   closeLog, closeFails, closeErr, notResolve>>

\* errors.Join: the errors that are not nil, in order.
JoinFirst(streamErr, archiveErr) == IF streamErr # <<>> THEN streamErr ELSE archiveErr
Join(streamErr, archiveErr) == streamErr \o archiveErr

\* nestedArchiveStream.Close of the wrapper that holds the inner archive of
\* level k, down to the reader of the entry: what is closed, in order, and
\* the error returned; fails are the closers that return an error.
RECURSIVE nestedClose(_, _, _)
nestedClose(k, depth, fails) ==
    LET inner == IF k = depth
                 THEN [log |-> <<Reader>>,
                       err |-> IF Reader \in fails THEN <<Reader>> ELSE <<>>]
                 ELSE nestedClose(k + 1, depth, fails)
        archiveErr == IF Adapter(k) \in fails THEN <<Adapter(k)>> ELSE <<>>
    IN  [log |-> Append(inner.log, Adapter(k)),
         err |-> Join(inner.err, archiveErr)]

\* The caller closes the nested archive stream it was handed.
NestedArchiveStreamClose ==
    /\ callPc = "done"
    /\ returned.kind = "stream"
    /\ returned.depth >= 1
    /\ closeLog = <<>>
    /\ \E fails \in SUBSET ({Reader} \cup {Adapter(k) : k \in 1 .. returned.depth}) :
          /\ closeFails' = fails
          /\ closeLog' = nestedClose(1, returned.depth, fails).log
          /\ closeErr' = nestedClose(1, returned.depth, fails).err
    /\ closedSet' = closedSet \cup UNION {ArchiveClose(k) : k \in 1 .. returned.depth}
    /\ UNCHANGED <<callPc, pathLeft, level, archiveTypes, files, created, confirmed,
                   touched, returned, notResolve>>

\* The caller closes the stream of an entry of the archive of the NZB: it is
\* the reader of the entry, and Close closes that.
StreamClose ==
    /\ callPc = "done"
    /\ returned.kind = "stream"
    /\ returned.depth = 0
    /\ closeLog = <<>>
    /\ \E fails \in SUBSET {Reader} :
          /\ closeFails' = fails
          /\ closeLog' = <<Reader>>
          /\ closeErr' = IF Reader \in fails THEN <<Reader>> ELSE <<>>
    /\ UNCHANGED <<callPc, pathLeft, level, archiveTypes, files, created, closedSet,
                   confirmed, touched, returned, notResolve>>

ResolveInit == ResolveIdle /\ StreamIdle /\ FileIdle /\ SearchIdle /\ OtherIdle

ResolveNext ==
    \/ StreamByContentPath
    \/ resolveHeader
    \/ resolveOpen
    \/ descentList
    \/ descentMatch
    \/ descentOpen
    \/ descentUnwind
    \/ NestedArchiveStreamClose
    \/ StreamClose

ResolveSpec == ResolveInit /\ [][ResolveNext]_vars

\* ------------------------------------------------------------ resolver: properties
\* C17: StreamByContentPath never ends in a nil-pointer dereference.
C17_NoMissingRecordDereference == returned.kind # "panic"

\* C18: when StreamByContentPath has returned an error, every Virtual FS and
\* every Archive Adapter it created has been closed.
C18_ErrorClosesEverything ==
    (callPc = "done" /\ returned.kind = "error") => created \subseteq closedSet

\* C19: when Close of a nested archive stream has returned, it has closed the
\* reader first and then every inner adapter, whichever of them failed, and
\* has returned the errors of exactly those that failed (nil when none did).
C19_NestedCloseJoinsErrors ==
    closeLog # <<>> =>
        /\ closeLog[1] = Reader
        /\ \A k \in 1 .. returned.depth :
              \E n \in 2 .. Len(closeLog) : closeLog[n] = Adapter(k)
        /\ {closeErr[n] : n \in 1 .. Len(closeErr)} = closeFails
        /\ (closeErr = <<>>) = (closeFails = {})

\* Close has run while both the reader and the adapter failed to close.
C19_Witness ==
    /\ closeLog = <<Reader, Adapter(1)>>
    /\ closeFails = {Reader, Adapter(1)}
    /\ Len(closeErr) = 2

\* C20: every archive that was listed and every entry that was opened, alone
\* or as a volume of an inner archive, had answered true to IsStreamable()
\* before; and when the archive of the NZB is not streamable the call
\* returns the error with nothing listed and nothing opened.
C20_OnlyStreamableOpened ==
    /\ touched \subseteq confirmed
    /\ returned.err = "non-streamable archive" => touched = {}

\* An inner archive made of two volumes has been listed.
C20_Witness ==
    /\ Archive(1) \in touched
    /\ {Entry(0, 1), Entry(0, 2)} \subseteq touched
    /\ callPc = "match"

\* C37: once the stream StreamByContentPath returned for a path into an
\* archive has been closed, every Virtual FS and every Archive Adapter the
\* resolution created has been closed, the ones of the archive of the NZB
\* included.
C37_CloseReleasesEverything ==
    (returned.kind = "stream" /\ closeLog # <<>>) => created \subseteq closedSet

\* Every part but one is idle.
RarAlone == StreamIdle /\ FileIdle /\ SearchIdle /\ ResolveIdle /\ PickIdle /\ PoolIdle /\ CallIdle /\ ParseIdle /\ HashIdle /\ GroupIdle /\ FetchIdle /\ ProcIdle /\ CacheIdle
PickAlone == StreamIdle /\ FileIdle /\ SearchIdle /\ ResolveIdle /\ RarIdle /\ PoolIdle /\ CallIdle /\ ParseIdle /\ HashIdle /\ GroupIdle /\ FetchIdle /\ ProcIdle /\ CacheIdle
PoolAlone == StreamIdle /\ FileIdle /\ SearchIdle /\ ResolveIdle /\ RarIdle /\ PickIdle /\ CallIdle /\ ParseIdle /\ HashIdle /\ GroupIdle /\ FetchIdle /\ ProcIdle /\ CacheIdle
CallAlone == StreamIdle /\ FileIdle /\ SearchIdle /\ ResolveIdle /\ RarIdle /\ PickIdle /\ PoolIdle /\ ParseIdle /\ HashIdle /\ GroupIdle /\ FetchIdle /\ ProcIdle /\ CacheIdle
ParseAlone == StreamIdle /\ FileIdle /\ SearchIdle /\ ResolveIdle /\ RarIdle /\ PickIdle /\ PoolIdle /\ CallIdle /\ HashIdle /\ GroupIdle /\ FetchIdle /\ ProcIdle /\ CacheIdle
HashAlone == StreamIdle /\ FileIdle /\ SearchIdle /\ ResolveIdle /\ RarIdle /\ PickIdle /\ PoolIdle /\ CallIdle /\ ParseIdle /\ GroupIdle /\ FetchIdle /\ ProcIdle /\ CacheIdle
GroupAlone == StreamIdle /\ FileIdle /\ SearchIdle /\ ResolveIdle /\ RarIdle /\ PickIdle /\ PoolIdle /\ CallIdle /\ ParseIdle /\ HashIdle /\ FetchIdle /\ ProcIdle /\ CacheIdle
FetchAlone == StreamIdle /\ FileIdle /\ SearchIdle /\ ResolveIdle /\ RarIdle /\ PickIdle /\ PoolIdle /\ CallIdle /\ ParseIdle /\ HashIdle /\ GroupIdle /\ ProcIdle /\ CacheIdle
ProcAlone == StreamIdle /\ FileIdle /\ SearchIdle /\ ResolveIdle /\ RarIdle /\ PickIdle /\ PoolIdle /\ CallIdle /\ ParseIdle /\ HashIdle /\ GroupIdle /\ FetchIdle /\ CacheIdle
CacheAlone == StreamIdle /\ FileIdle /\ SearchIdle /\ ResolveIdle /\ RarIdle /\ PickIdle /\ PoolIdle /\ CallIdle /\ ParseIdle /\ HashIdle /\ GroupIdle /\ FetchIdle /\ ProcIdle

\* ------------------------------------------------------------ RAR adapter
\* One RARArchive (usenet_rar.go).  The archive is what its header iterator
\* yields: per entry the Solid flag and the packed and unpacked sizes.  An
\* iteration reads the volumes through the Virtual FS and may fail.
MaxHeaders == 2     \* most entries of a RAR archive
MaxPacked == 1      \* largest packed or unpacked size of an entry

Headers == [Solid : BOOLEAN, PackedSize : 0 .. MaxPacked, UnPackedSize : 0 .. MaxPacked]
HeaderLists == UNION {[1 .. n -> Headers] : n \in 0 .. MaxHeaders}

NotListed == [listed |-> FALSE, files |-> <<>>]
Answer(b) == IF b THEN "true" ELSE "false"

\* isSolid: the loop over the headers.
AnySolid(hs) == \E i \in 1 .. Len(hs) : hs[i].Solid

\* RARArchive.IsStreamable: isSolid() computes ura.solid once, and leaves it
\* nil when the iteration failed.
RARArchiveIsStreamable ==
    /\ IF solid = "nil"
       THEN \E err \in BOOLEAN :
               IF err
               THEN /\ UNCHANGED solid
                    /\ rarAnswer' = [rarAnswer EXCEPT !.archive = "false"]
               ELSE /\ solid' = Answer(AnySolid(headers))
                    /\ rarAnswer' = [rarAnswer EXCEPT !.archive = Answer(~AnySolid(headers))]
       ELSE /\ UNCHANGED solid
            /\ rarAnswer' = [rarAnswer EXCEPT !.archive = Answer(solid = "false")]
    /\ UNCHANGED <<headers, rarFiles, notRar>>

\* RARArchive.GetFiles: one UsenetRARFile per header, listed once.
RARArchiveGetFiles ==
    /\ ~rarFiles.listed
    /\ \E err \in BOOLEAN :
          IF err
          THEN UNCHANGED <<rarFiles, rarAnswer>>
          ELSE /\ rarFiles' =
                    [listed |-> TRUE,
                     files |-> [i \in 1 .. Len(headers) |->
                                  [packedSize |-> headers[i].PackedSize,
                                   unPackedSize |-> headers[i].UnPackedSize,
                                   solid |-> headers[i].Solid]]]
               /\ rarAnswer' = [rarAnswer EXCEPT
                                  !.entries = [i \in 1 .. Len(headers) |-> "none"]]
    /\ UNCHANGED <<headers, solid, notRar>>

\* UsenetRARFile.IsStreamable of the i-th listed file.
UsenetRARFileIsStreamable(i) ==
    /\ rarFiles.listed
    /\ LET urf == rarFiles.files[i]
       IN  rarAnswer' = [rarAnswer EXCEPT
                           !.entries[i] = Answer(~urf.solid /\ urf.packedSize = urf.unPackedSize)]
    /\ UNCHANGED <<headers, solid, rarFiles, notRar>>

RarInit ==
    /\ headers \in HeaderLists
    /\ solid = "nil"
    /\ rarFiles = NotListed
    /\ rarAnswer = NoAnswer
    /\ RarAlone

RarNext ==
    \/ RARArchiveIsStreamable
    \/ RARArchiveGetFiles
    \/ \E i \in 1 .. Len(rarFiles.files) : UsenetRARFileIsStreamable(i)

RarSpec == RarInit /\ [][RarNext]_vars

\* C21: the archive-level IsStreamable() has answered true only for an
\* archive with no solid header whose entries all have equal packed and
\* unpacked sizes, and every per-entry IsStreamable() has answered false
\* exactly for a solid entry or one whose packed and unpacked sizes differ.
C21_StreamableOnlyIfStored ==
    /\ rarAnswer.archive = "true" =>
          \A i \in 1 .. Len(headers) :
              ~headers[i].Solid /\ headers[i].PackedSize = headers[i].UnPackedSize
    /\ \A i \in 1 .. Len(rarAnswer.entries) :
          rarAnswer.entries[i] # "none" =>
              ((rarAnswer.entries[i] = "false") <=>
                  (headers[i].Solid \/ headers[i].PackedSize # headers[i].UnPackedSize))

\* ------------------------------------------------------------ name matching
\* A path element is a name, the empty string, or slashes alone.
SlashOnly == [ext |-> "", caps |-> FALSE, slash |-> TRUE]
PathNames == Names \cup {NoName, SlashOnly}

\* The path elements that differ from a name in letter case and in leading
\* and trailing slashes only.
Variants(name) == {v \in PathNames : ToLower(Trim(v)) = ToLower(Trim(name))}

\* StreamByContentPath with a path of two or more elements, up to
\* NewRARArchive / NewSevenZipArchive: the NZB file it selects (0: none), the
\* archive name it sniffs the type with, and the name it hands the adapter
\* to open the archive under.
selectArchive(nzbFiles, contentFiles, name) ==
    LET found == findFileByName(nzbFiles, contentFiles, name)
        none(err) == [file |-> 0, archiveName |-> NoName, opened |-> NoName, err |-> err]
    IN  IF name = NoName THEN none("invalid content path")
        ELSE IF found.file = 0 THEN none("no file matching")
        ELSE IF found.contentFile = 0 THEN none("nil pointer dereference")
        ELSE [file |-> found.file,
              archiveName |-> IF contentFiles[found.contentFile].Alias # NoName
                              THEN contentFiles[found.contentFile].Alias
                              ELSE contentFiles[found.contentFile].Name,
              opened |-> name,
              err |-> "nil"]

\* streamTargetFromArchive: the entry its loop stops at (0: none).
matchEntry(list, target) ==
    LET targetName == Trim(target)
        Matches(f) == EqualFold(f, targetName)
        i == First(list, Matches)
    IN  [file |-> i, archiveName |-> NoName, opened |-> NoName,
         err |-> IF i = 0 THEN "no file matching" ELSE "nil"]

Picked(sel) ==
    pick' = [pick EXCEPT !.done = TRUE, !.file = sel.file, !.archiveName = sel.archiveName,
                         !.opened = sel.opened, !.err = sel.err]

pickArchive ==
    /\ pick.stage = "archive"
    /\ ~pick.done
    /\ Picked(selectArchive(pick.nzbFiles, pick.contentFiles, pick.name))
    /\ UNCHANGED notPick

pickEntry ==
    /\ pick.stage = "entry"
    /\ ~pick.done
    /\ Picked(matchEntry(pick.list, pick.name))
    /\ UNCHANGED notPick

EntryLists == UNION {[1 .. n -> EntryNames] : n \in 0 .. MaxEntries}

PickInit ==
    /\ \/ \E nzbFiles \in NzbFiles, contentFiles \in ContentFiles, name \in PathNames :
             pick = [NoPick EXCEPT !.stage = "archive", !.nzbFiles = nzbFiles,
                                   !.contentFiles = contentFiles, !.name = name]
       \/ \E list \in EntryLists, name \in Names :
             pick = [NoPick EXCEPT !.stage = "entry", !.list = list, !.name = name]
    /\ PickAlone

PickNext ==
    \/ pickArchive
    \/ pickEntry

PickSpec == PickInit /\ [][PickNext]_vars

\* C22: whatever StreamByContentPath has selected for a path element (the
\* NZB file, the archive name, the name the archive is opened under, or a
\* failure) and whatever entry streamTargetFromArchive has matched for one,
\* it selects and matches the same for every element that differs from it
\* in letter case and surrounding slashes only; and the entry matched is the
\* first of the listing that equals the trimmed element ignoring case.
C22_SameForEveryVariant ==
    pick.done =>
        /\ \A v \in Variants(pick.name) :
              LET sel == IF pick.stage = "archive"
                         THEN selectArchive(pick.nzbFiles, pick.contentFiles, v)
                         ELSE matchEntry(pick.list, v)
              IN  /\ sel.file = pick.file
                  /\ sel.archiveName = pick.archiveName
                  /\ sel.opened = pick.opened
                  /\ (sel.err = "nil") = (pick.err = "nil")
        /\ (pick.stage = "entry" /\ pick.file # 0) =>
              /\ EqualFold(pick.list[pick.file], Trim(pick.name))
              /\ \A j \in 1 .. pick.file - 1 : ~EqualFold(pick.list[j], Trim(pick.name))

\* ------------------------------------------------------------ pool entry points
\* StreamLargestFile, StreamFileByName and StreamByContentPath with a single
\* path element (stream.go), over an NZB whose files have a name, the bytes
\* attribute of each segment, and the type DetectFileType finds in the first
\* segment.  A fetch of the first segment succeeds or fails; streaming out
\* of an archive (streamRARFile, stream7zFile) succeeds or fails.
MaxDocFiles == 2    \* most files of an NZB
MaxDocSegs == 2     \* most segments of a file
MaxSegBytes == 1    \* largest bytes attribute of a segment

FileTypes == {"plain", "RAR", "7z"}
SegSizes == UNION {[1 .. n -> 0 .. MaxSegBytes] : n \in 0 .. MaxDocSegs}
Docs(fileSet) == UNION {[1 .. n -> fileSet] : n \in 0 .. MaxDocFiles}

\* isVideoFile, IsArchiveFile: by the extension of the name.
isVideoFile(filename) == filename.ext = "mkv"
IsArchiveFile(filename) == filename.ext \in {"rar", "r00", "7z"}

\* File.Size: the sum of the bytes attributes, in int64.
RECURSIVE SumSizes(_)
SumSizes(sizes) ==
    IF sizes = <<>> THEN 0 ELSE Int64(sizes[1] + SumSizes(Tail(sizes)))
FileTotalSize(f) == SumSizes(f.sizes)
FileSegmentCount(f) == Len(f.sizes)

\* GetLargestFileIdx: the scan from file i (0-based) on; -1 when no file was
\* taken.
LargerOrEqual(size, largestSize) == size >= largestSize
Larger(size, largestSize) == size > largestSize
RECURSIVE largestFrom(_, _, _, _, _)
largestFrom(doc, skip, i, largestIdx, largestSize) ==
    IF i >= Len(doc) THEN largestIdx
    ELSE IF skip[doc[i + 1].name] THEN largestFrom(doc, skip, i + 1, largestIdx, largestSize)
    ELSE IF Larger(FileTotalSize(doc[i + 1]), largestSize)
    THEN largestFrom(doc, skip, i + 1, i, FileTotalSize(doc[i + 1]))
    ELSE largestFrom(doc, skip, i + 1, largestIdx, largestSize)
GetLargestFileIdx(doc, skip) == largestFrom(doc, skip, 0, -1, 0)

\* The skip function StreamLargestFile passes.
SkipNeitherVideoNorArchive(doc) ==
    [name \in {doc[i].name : i \in 1 .. Len(doc)} |->
        ~isVideoFile(name) /\ ~IsArchiveFile(name)]

PoolResult(kind, idx, err) == [kind |-> kind, idx |-> idx, err |-> err]

\* streamPlainFile: NewFileStream fetches file.Segments[0] first.
streamPlainFile(doc, fileIdx, fetched) ==
    IF FileSegmentCount(doc[fileIdx + 1]) = 0
    THEN PoolResult("panic", fileIdx, "index out of range")
    ELSE IF ~fetched THEN PoolResult("error", fileIdx, "fetch failed")
    ELSE PoolResult("file stream", fileIdx, "nil")

\* streamFile.
streamFile(doc, fileIdx, fetched, archiveOk) ==
    IF fileIdx < 0 \/ fileIdx >= Len(doc)
    THEN PoolResult("error", fileIdx, "file index out of range")
    ELSE IF FileSegmentCount(doc[fileIdx + 1]) = 0
    THEN PoolResult("error", fileIdx, "file has no segments")
    ELSE IF ~fetched THEN PoolResult("error", fileIdx, "failed to fetch file header")
    ELSE IF doc[fileIdx + 1].type = "plain" THEN streamPlainFile(doc, fileIdx, fetched)
    ELSE IF archiveOk THEN PoolResult("archive stream", fileIdx, "nil")
    ELSE PoolResult("error", fileIdx, "archive")

streamLargestFile(doc, fetched, archiveOk) ==
    IF Len(doc) = 0 THEN PoolResult("error", -1, "NZB has no files")
    ELSE streamFile(doc, GetLargestFileIdx(doc, SkipNeitherVideoNorArchive(doc)),
                    fetched, archiveOk)

poolReturns(op, name, contentFiles, fetched, archiveOk, res) ==
    poolCall' = [op |-> op, name |-> name, contentFiles |-> contentFiles,
                 fetched |-> fetched, archiveOk |-> archiveOk,
                 idx |-> res.idx, kind |-> res.kind, err |-> res.err]

StreamLargestFile ==
    /\ poolCall.op = "none"
    /\ \E fetched \in BOOLEAN, archiveOk \in BOOLEAN :
          poolReturns("StreamLargestFile", NoName, <<>>, fetched, archiveOk,
                      streamLargestFile(nzbDoc, fetched, archiveOk))
    /\ UNCHANGED <<nzbDoc, notPool>>

LargestNames == [ext : {"mkv", "rar", "nfo"}, caps : {FALSE}, slash : {FALSE}]
LargestFiles == [name : LargestNames, sizes : SegSizes, type : {"plain", "RAR"}]

LargestInit ==
    /\ nzbDoc \in Docs(LargestFiles)
    /\ poolCall = NoCall
    /\ PoolAlone

LargestNext == StreamLargestFile

LargestSpec == LargestInit /\ [][LargestNext]_vars

\* The files a choice is made among, and the largest of them.
DocIndices == 0 .. Len(nzbDoc) - 1
NeitherVideoNorArchive ==
    {i \in DocIndices : ~isVideoFile(nzbDoc[i + 1].name) /\ ~IsArchiveFile(nzbDoc[i + 1].name)}
VideoOrArchive ==
    {i \in DocIndices : (isVideoFile(nzbDoc[i + 1].name) \/ IsArchiveFile(nzbDoc[i + 1].name))
                        /\ FileTotalSize(nzbDoc[i + 1]) > 0}
LargestOf(S, i) ==
    /\ i \in S
    /\ \A j \in S : FileTotalSize(nzbDoc[j + 1]) <= FileTotalSize(nzbDoc[i + 1])

\* C23 as stated: StreamLargestFile has handed to streamFile a file of the
\* largest summed segment size among the files whose name is neither a video
\* nor an archive name, and has returned an error, without a crash, when
\* the NZB has no files or no such file.
C23_LargestOtherFile ==
    poolCall.op = "StreamLargestFile" =>
        /\ poolCall.kind # "panic"
        /\ IF NeitherVideoNorArchive # {}
           THEN LargestOf(NeitherVideoNorArchive, poolCall.idx)
           ELSE poolCall.kind = "error"

\* C23, amended: StreamLargestFile has handed to streamFile the first file
\* of the largest summed segment size among the files whose name is a video
\* or an archive name and whose summed size is positive, and has returned
\* an error, without a crash, when the NZB has no files or no such file.
C23_LargestVideoOrArchive ==
    poolCall.op = "StreamLargestFile" =>
        /\ poolCall.kind # "panic"
        /\ IF VideoOrArchive # {}
           THEN /\ LargestOf(VideoOrArchive, poolCall.idx)
                /\ \A j \in VideoOrArchive :
                      j < poolCall.idx =>
                          FileTotalSize(nzbDoc[j + 1]) < FileTotalSize(nzbDoc[poolCall.idx + 1])
           ELSE /\ poolCall.kind = "error"
                /\ poolCall.err = IF nzbDoc = <<>> THEN "NZB has no files"
                                  ELSE "file index out of range"

\* The second of two video files is the larger one and is streamed.
C23_Witness ==
    /\ poolCall.op = "StreamLargestFile"
    /\ Len(nzbDoc) = 2
    /\ VideoOrArchive = {0, 1}
    /\ FileTotalSize(nzbDoc[1]) < FileTotalSize(nzbDoc[2])
    /\ poolCall.idx = 1
    /\ poolCall.kind = "file stream"

\* StreamFileByName: the first file whose name equals filename ignoring
\* case goes to streamFile.
streamFileByName(doc, filename, fetched, archiveOk) ==
    LET Named(f) == EqualFold(f.name, filename)
        i == First(doc, Named)
    IN  IF i = 0 THEN PoolResult("error", -1, "no file matching")
        ELSE streamFile(doc, i - 1, fetched, archiveOk)

\* StreamByContentPath with len(contentPath) = 1: the file findFileByName
\* finds goes to streamPlainFile.
streamByContentPathOne(doc, contentFiles, name, fetched) ==
    LET found == findFileByName([i \in 1 .. Len(doc) |-> doc[i].name], contentFiles, name)
    IN  IF name = NoName THEN PoolResult("error", -1, "invalid content path")
        ELSE IF found.file = 0 THEN PoolResult("error", -1, "no file matching")
        ELSE streamPlainFile(doc, found.file - 1, fetched)

ByNameArgs == {n \in PathNames : n.ext \in {"rar", "mkv", ""}}

StreamFileByName ==
    /\ poolCall.op = "none"
    /\ \E filename \in ByNameArgs, contentFiles \in ContentFiles,
          fetched \in BOOLEAN, archiveOk \in BOOLEAN :
          poolReturns("StreamFileByName", filename, contentFiles, fetched, archiveOk,
                      streamFileByName(nzbDoc, filename, fetched, archiveOk))
    /\ UNCHANGED <<nzbDoc, notPool>>

StreamByContentPathOne ==
    /\ poolCall.op = "none"
    /\ \E name \in ByNameArgs, contentFiles \in ContentFiles, fetched \in BOOLEAN :
          poolReturns("StreamByContentPath", name, contentFiles, fetched, FALSE,
                      streamByContentPathOne(nzbDoc, contentFiles, name, fetched))
    /\ UNCHANGED <<nzbDoc, notPool>>

\* Files with segments have a detected type.
NamedFiles ==
    [name : FileNames, sizes : {<<>>}, type : {"plain"}]
        \cup [name : FileNames, sizes : {<<1>>}, type : FileTypes]

ByNameInit ==
    /\ nzbDoc \in Docs(NamedFiles)
    /\ poolCall = NoCall
    /\ PoolAlone

ByNameNext ==
    \/ StreamFileByName
    \/ StreamByContentPathOne

ByNameSpec == ByNameInit /\ [][ByNameNext]_vars

\* C24: for the NZB, name, config and fetch outcomes of the call that was
\* made, StreamFileByName and StreamByContentPath with the one-element path
\* both return a File Stream over the same NZB file, or both return an
\* error.
C24_ByNameIsSingleElementPath ==
    poolCall.op \in {"StreamFileByName", "StreamByContentPath"} =>
        LET a == streamFileByName(nzbDoc, poolCall.name, poolCall.fetched, poolCall.archiveOk)
            b == streamByContentPathOne(nzbDoc, poolCall.contentFiles, poolCall.name,
                                        poolCall.fetched)
        IN  \/ a.kind = "file stream" /\ b.kind = "file stream" /\ a.idx = b.idx
            \/ a.kind = "error" /\ b.kind = "error"

\* ------------------------------------------------------------ plain stream and the caller's context
\* StreamByContentPath(ctx, nzb, [name], cfg) on a plain file: streamPlainFile
\* makes the File Stream with context.Background(), so the context of the
\* Segments Stream a Read creates descends from context.Background() and from
\* the cancel function of the File Stream, which Close alone calls; ctx is
\* not among its ancestors.  The Segments Stream below is the one of the
\* Read in progress; Close is not called, so the context of the stream is
\* cancelled by nothing and its watcher goroutine never takes its step.
callerCancel ==
    /\ ~callCtxDone
    /\ callCtxDone' = TRUE
    /\ UNCHANGED notCall

PlainInit ==
    /\ StreamInit
    /\ callCtxDone = FALSE
    /\ FileIdle /\ SearchIdle /\ ResolveIdle
    /\ RarIdle /\ PickIdle /\ PoolIdle /\ ParseIdle /\ HashIdle /\ GroupIdle /\ FetchIdle /\ ProcIdle /\ CacheIdle

PlainNext ==
    \/ startSegmentFetcher
    \/ Dispatcher
    \/ \E w \in Workers : Fetcher(w)
    \/ \E w \in Workers : FetcherFails(w)
    \/ waitGroupClose
    \/ Collector
    \/ Read
    \/ callerCancel

\* Every goroutine of the pipeline that can take a step eventually takes
\* one, every fetch returns, and a Read that was called runs on; whether
\* Read is called again, and whether the caller cancels, is left open.
PlainSpec ==
    /\ PlainInit
    /\ [][PlainNext]_vars
    /\ WF_vars(startSegmentFetcher)
    /\ WF_vars(Dispatcher)
    /\ \A w \in 1 .. MaxConn : WF_vars(FairFetcher(w))
    /\ WF_vars(waitGroupClose)
    /\ WF_vars(Collector)
    /\ WF_vars(ReadLoop \/ ReadRecv)

\* C25: once the context passed to StreamByContentPath is cancelled, the
\* Read in progress eventually has returned and the dispatcher, every fetch
\* worker and the collector have returned, with no call of Close.
C25_CallerCancelStopsStream ==
    callCtxDone ~> (rpc = "idle" /\ PipelineTerminated)

\* ------------------------------------------------------------ NZB parser
\* Parse (package nzb) after the XML is decoded and the subjects are parsed:
\* every file has its derived order number, every segment its number
\* attribute, an int that the document chooses.  An element of a list is
\* told apart by its place in the document (at).
MaxParseFiles == 2  \* most files of a document
MaxParseSegs == 3   \* most segments of a file
MaxNumber == 1      \* largest order number and number attribute but the extremes

FileNumbers == 0 .. MaxNumber
SegmentNumbers == {IntMin, IntMax} \cup (0 .. MaxNumber)
XmlSegments == UNION {[1 .. n -> SegmentNumbers] : n \in 0 .. MaxParseSegs}
XmlFiles == [number : FileNumbers, Segments : XmlSegments]
XmlDocs == UNION {[1 .. n -> XmlFiles] : n \in 0 .. MaxParseFiles}

\* The comparison functions of Parse: a.number - b.number, in int.
cmpNumbers(a, b) == Int64(a.key - b.key)

\* slices.SortStableFunc on a list of at most 20 elements is an insertion
\* sort: element i sinks while it compares below its left neighbour.
Swap(s, j) == [s EXCEPT ![j - 1] = s[j], ![j] = s[j - 1]]
RECURSIVE Sink(_, _)
Sink(s, j) ==
    IF j > 1 /\ cmpNumbers(s[j], s[j - 1]) < 0 THEN Sink(Swap(s, j), j - 1) ELSE s
RECURSIVE insertionSort(_, _)
insertionSort(s, i) ==
    IF i > Len(s) THEN s ELSE insertionSort(Sink(s, i), i + 1)
SortStableFunc(s) == insertionSort(s, 2)

Keyed(numbers) == [i \in 1 .. Len(numbers) |-> [key |-> numbers[i], at |-> i]]

\* Parse: the files sorted by number, then the segments of each file sorted
\* by Number.
Parse ==
    /\ ~parsed.done
    /\ LET sorted == SortStableFunc([i \in 1 .. Len(xmlDoc) |->
                                        [key |-> xmlDoc[i].number, at |-> i]])
       IN  parsed' =
              [done |-> TRUE,
               Files |-> [i \in 1 .. Len(sorted) |->
                            [number |-> sorted[i].key,
                             at |-> sorted[i].at,
                             Segments |-> SortStableFunc(Keyed(xmlDoc[sorted[i].at].Segments))]]]
    /\ UNCHANGED <<xmlDoc, notParse>>

ParseInit ==
    /\ xmlDoc \in XmlDocs
    /\ parsed = NotParsed
    /\ ParseAlone

ParseNext == Parse

ParseSpec == ParseInit /\ [][ParseNext]_vars

\* A list is in non-decreasing key order with equal keys in document order,
\* and holds the n elements of the document, each once.
StablySorted(s) ==
    \A i, j \in 1 .. Len(s) :
        i < j => \/ s[i].key < s[j].key
                 \/ s[i].key = s[j].key /\ s[i].at < s[j].at
SameElements(s, numbers) ==
    /\ Len(s) = Len(numbers)
    /\ {s[i].at : i \in 1 .. Len(s)} = 1 .. Len(numbers)
    /\ \A i \in 1 .. Len(s) : s[i].key = numbers[s[i].at]

\* C26: after Parse the files are in non-decreasing order of their order
\* number and the segments of every file in non-decreasing order of their
\* number attribute, equal numbers in document order, and the files and
\* the segments of each file are those of the document, each once.
C26_ParseSortsStably ==
    parsed.done =>
        LET fs == [i \in 1 .. Len(parsed.Files) |->
                      [key |-> parsed.Files[i].number, at |-> parsed.Files[i].at]]
        IN  /\ StablySorted(fs)
            /\ SameElements(fs, [i \in 1 .. Len(xmlDoc) |-> xmlDoc[i].number])
            /\ \A i \in 1 .. Len(parsed.Files) :
                  /\ StablySorted(parsed.Files[i].Segments)
                  /\ SameElements(parsed.Files[i].Segments,
                                  xmlDoc[parsed.Files[i].at].Segments)

\* ------------------------------------------------------------ boundary hash
\* HashByFileBoundarySegmentIds (package nzb).  A message-id is a string of
\* characters; md5 tells two inputs apart exactly when they differ, so the
\* hash is the string that is written into it.
MaxHashFiles == 2   \* most files of a hashed NZB
MaxHashSegs == 3    \* most segments of a file of it

MessageIds == {<<"a">>, <<"b">>, <<"a", " ">>}
IdLists == UNION {[1 .. n -> MessageIds] : n \in 0 .. MaxHashSegs}
HashDocs == UNION {[1 .. n -> IdLists] : n \in 0 .. MaxHashFiles}

\* strings.TrimSpace.
RECURSIVE TrimSpace(_)
TrimSpace(id) ==
    IF id = <<>> THEN id
    ELSE IF Head(id) = " " THEN TrimSpace(Tail(id))
    ELSE IF id[Len(id)] = " " THEN TrimSpace(SubSeq(id, 1, Len(id) - 1))
    ELSE id

\* What the loop writes for one file: nothing for a file without segments,
\* the first id, and the last id when it is not the first segment.
RECURSIVE WrittenAll(_)
WrittenAll(ids) ==
    IF ids = <<>> THEN <<>>
    ELSE TrimSpace(ids[1]) \o WrittenAll(Tail(ids))
Written(ids) ==
    IF Len(ids) = 0 THEN <<>>
    ELSE TrimSpace(ids[1]) \o (IF Len(ids) - 1 > 0 THEN TrimSpace(ids[Len(ids)]) ELSE <<>>)

RECURSIVE HashByFileBoundarySegmentIds(_)
HashByFileBoundarySegmentIds(doc) ==
    IF doc = <<>> THEN <<>>
    ELSE Written(doc[1]) \o HashByFileBoundarySegmentIds(Tail(doc))

\* The first and last trimmed message-id of a file (none for a file without
\* segments), and two NZBs that agree on them file by file.
BoundaryIds(ids) ==
    IF Len(ids) = 0 THEN <<>> ELSE <<TrimSpace(ids[1]), TrimSpace(ids[Len(ids)])>>
SameBoundaryIds(d, e) ==
    /\ Len(d) = Len(e)
    /\ \A i \in 1 .. Len(d) : BoundaryIds(d[i]) = BoundaryIds(e[i])

\* An NZB is hashed.
hashNzb ==
    /\ ~digest.done
    /\ digest' = [done |-> TRUE, sum |-> HashByFileBoundarySegmentIds(nzb)]
    /\ UNCHANGED <<nzb, prevNzb, prevDigest, notHash>>

\* Another NZB with the same boundary ids is hashed.
hashAnother ==
    /\ digest.done
    /\ ~prevDigest.done
    /\ \E other \in HashDocs :
          /\ other # nzb
          /\ SameBoundaryIds(nzb, other)
          /\ nzb' = other
          /\ digest' = [done |-> TRUE, sum |-> HashByFileBoundarySegmentIds(other)]
    /\ prevNzb' = nzb
    /\ prevDigest' = digest
    /\ UNCHANGED notHash

HashInit ==
    /\ nzb \in HashDocs
    /\ digest = NoDigest
    /\ prevNzb = <<>>
    /\ prevDigest = NoDigest
    /\ HashAlone

HashNext ==
    \/ hashNzb
    \/ hashAnother

HashSpec == HashInit /\ [][HashNext]_vars

\* C27 as stated: two NZBs that agree, file by file, on the first and the
\* last trimmed message-id have the same hash.
C27_HashOfBoundaryIdsOnly ==
    prevDigest.done => digest.sum = prevDigest.sum

\* C27, amended: two NZBs that agree, file by file, on the first and the
\* last trimmed message-id and on whether the file has exactly one segment
\* have the same hash.
SameSingles(d, e) == \A i \in 1 .. Len(d) : (Len(d[i]) = 1) = (Len(e[i]) = 1)
C27_HashOfBoundaryIdsAndSingles ==
    (prevDigest.done /\ SameSingles(prevNzb, nzb)) => digest.sum = prevDigest.sum

\* Two NZBs were hashed that differ in the segments between the first and
\* the last of a file: one has none, the other one, an id of its own.
C27_Witness ==
    /\ prevDigest.done
    /\ Len(nzb) = 2 /\ nzb[2] = prevNzb[2]
    /\ prevNzb[1] = <<<<"a">>, <<"b">>>>
    /\ nzb[1] = <<<<"a", " ">>, <<"a">>, <<"b">>>>
    /\ digest.sum = <<"a", "b">> \o HashByFileBoundarySegmentIds(<<nzb[2]>>)

\* ------------------------------------------------- archive volume grouper
\* groupArchiveVolumes on a list of files that have a name and a size and no
\* type of their own (the element type implements simpleFile only).  A name
\* is its base name and its suffix: none that names an archive (plain),
\* ".rar", ".7z", ".part<n>.rar" or ".r<n>", where n is what strconv.Atoi
\* makes of the digits (IntMax when they are out of range, the error is
\* dropped).
MaxGroupFiles == 3  \* most files of a list
MaxGroupCalls == 2  \* calls made on one list
MaxDigits == 1      \* largest volume digits but the extreme
MaxFileSize == 1    \* largest size of a file

BaseNames == {"a", "b"}
VolumeDigits == (0 .. MaxDigits) \cup {IntMax}
VolumeNames ==
    [base : BaseNames, kind : {"plain", "rar", "7z"}, n : {0}]
        \cup [base : BaseNames, kind : {"part", "r"}, n : VolumeDigits]
VolumeFiles == [name : VolumeNames, size : 0 .. MaxFileSize]
VolumeLists == UNION {[1 .. n -> VolumeFiles] : n \in 0 .. MaxGroupFiles}

\* getArchiveBaseName: the name without its volume suffix, and the type the
\* suffix stands for.
getArchiveBaseName(name) ==
    [base |-> name.base,
     type |-> CASE name.kind \in {"part", "r", "rar"} -> "RAR"
                [] name.kind = "7z" -> "7z"
                [] OTHER -> "Plain"]

\* GetRARVolumeNumber: .part<n>.rar is volume n, .r<n> is volume n + 1 (in
\* int), .rar is volume 0.
GetRARVolumeNumber(name) ==
    CASE name.kind = "part" -> name.n
      [] name.kind = "r" -> Int64(name.n + 1)
      [] name.kind = "rar" -> 0
      [] OTHER -> -1

\* Get7zVolumeNumber: .7z is volume 0.
Get7zVolumeNumber(name) == IF name.kind = "7z" THEN 0 ELSE -1

getFileVolume(f, fileType) ==
    CASE fileType = "RAR" -> GetRARVolumeNumber(f.name)
      [] fileType = "7z" -> Get7zVolumeNumber(f.name)
      [] OTHER -> -1

\* The key of the map of groups; a plain file is passed over.
GroupKeyOf(f) == getArchiveBaseName(f.name)
Grouped(f) == GroupKeyOf(f).type # "Plain"
GroupKeys(list) == {GroupKeyOf(list[i]) : i \in {j \in 1 .. Len(list) : Grouped(list[j])}}

\* The places in the list of the files appended to the group of a key, in
\* the order of the appends.
RECURSIVE MembersFrom(_, _, _)
MembersFrom(list, key, i) ==
    IF i > Len(list) THEN <<>>
    ELSE IF GroupKeyOf(list[i]) = key THEN <<i>> \o MembersFrom(list, key, i + 1)
    ELSE MembersFrom(list, key, i + 1)

RECURSIVE SumOfSizes(_, _)
SumOfSizes(list, places) ==
    IF places = <<>> THEN 0
    ELSE list[Head(places)].size + SumOfSizes(list, Tail(places))

\* One group as the second loop leaves it: its files stably sorted by
\* a.volume - b.volume, and the volumes in that order.  A file is named by
\* its place in the list.
VolumeGroup(list, key) ==
    LET members == MembersFrom(list, key, 1)
        ivs == SortStableFunc([j \in 1 .. Len(members) |->
                                  [key |-> getFileVolume(list[members[j]], key.type),
                                   at |-> j]])
    IN  [BaseName |-> key.base,
         FileType |-> key.type,
         Files |-> [j \in 1 .. Len(ivs) |-> members[ivs[j].at]],
         Volumes |-> [j \in 1 .. Len(ivs) |-> ivs[j].key],
         TotalSize |-> SumOfSizes(list, members)]

\* The last sort: cmp.Compare(b.TotalSize, a.TotalSize), stable.
RECURSIVE SinkBySize(_, _)
SinkBySize(s, j) ==
    IF j > 1 /\ s[j - 1].TotalSize < s[j].TotalSize
    THEN SinkBySize(Swap(s, j), j - 1)
    ELSE s
RECURSIVE sortBySize(_, _)
sortBySize(s, i) ==
    IF i > Len(s) THEN s ELSE sortBySize(SinkBySize(s, i), i + 1)

\* The orders in which a range over the map of groups can visit its keys:
\* the language leaves the order open and it changes from range to range.
MapOrders(keys) ==
    {o \in [1 .. Cardinality(keys) -> keys] : \A k \in keys : \E i \in DOMAIN o : o[i] = k}

\* groupArchiveVolumes when the range over the map visits the keys in the
\* given order.
groupVolumes(list, order) ==
    sortBySize([g \in 1 .. Len(order) |-> VolumeGroup(list, order[g])], 2)

\* One call on the list.
groupArchiveVolumesCall ==
    /\ Len(grouped) < MaxGroupCalls
    /\ \E order \in MapOrders(GroupKeys(volList)) :
          grouped' = Append(grouped, groupVolumes(volList, order))
    /\ UNCHANGED <<volList, notGroup>>

GroupInit ==
    /\ volList \in VolumeLists
    /\ grouped = <<>>
    /\ GroupAlone

GroupNext == groupArchiveVolumesCall

GroupSpec == GroupInit /\ [][GroupNext]_vars

\* C28: the groups of every call partition the list (every file of the list
\* is in exactly one group, at one place), and the Volumes of every group
\* are strictly increasing.
C28_GroupsPartitionInput ==
    \A c \in 1 .. Len(grouped) :
        /\ \A i \in 1 .. Len(volList) :
              Cardinality({<<g, j>> \in (1 .. Len(grouped[c])) \X (1 .. MaxGroupFiles + 1) :
                              /\ j <= Len(grouped[c][g].Files)
                              /\ grouped[c][g].Files[j] = i}) = 1
        /\ \A g \in 1 .. Len(grouped[c]) :
              \A j \in 1 .. Len(grouped[c][g].Volumes) - 1 :
                  grouped[c][g].Volumes[j] < grouped[c][g].Volumes[j + 1]

\* C29: in the result of every call, the files of a group have the base
\* name and the type of the group, TotalSize is the sum of their sizes, the
\* files are in ascending order of volume number with Volumes[j] the volume
\* number of Files[j], the groups are in descending order of TotalSize, and
\* every call on the same list returns the same groups in the same order.
C29_GroupsOrdered ==
    /\ \A c \in 1 .. Len(grouped) :
          /\ \A g \in 1 .. Len(grouped[c]) :
                LET group == grouped[c][g]
                IN  /\ \A j \in 1 .. Len(group.Files) :
                          /\ GroupKeyOf(volList[group.Files[j]]) =
                                [base |-> group.BaseName, type |-> group.FileType]
                          /\ group.Volumes[j] =
                                getFileVolume(volList[group.Files[j]], group.FileType)
                    /\ group.TotalSize = SumOfSizes(volList, group.Files)
                    /\ \A j \in 1 .. Len(group.Files) - 1 :
                          group.Volumes[j] <= group.Volumes[j + 1]
          /\ \A g \in 1 .. Len(grouped[c]) - 1 :
                grouped[c][g].TotalSize >= grouped[c][g + 1].TotalSize
    /\ \A c, d \in 1 .. Len(grouped) : grouped[c] = grouped[d]

\* ----------------------------------------------------------- NZB file fetch
\* FetchNZBFile calls for one link.  A GET is named by its number, and what
\* a call returns names the GET it stems from.  singleflight.Do runs the
\* function for the first caller of a key, hands its result to the callers
\* that arrive while it runs, and forgets the key when it has returned.
\* The clock counts in units of half the lifetime of a cached failure.
MaxCallers == 3     \* calls made for the link
MaxClock == 2       \* the time stops here
FailureLifetime == 2  \* Lifetime of nzbFetchErrCache: 5 minutes, two units

Callers == 1 .. MaxCallers

\* The file that CacheNZBFile stores, which no GET of these calls fetched.
Uploaded == MaxCallers + 1

\* GETs whose function had ended.
Ended == {g \in DOMAIN getLog : getLog[g].added # "pending"}

\* nzbFetchErrCache.Get finds the failure until its lifetime is over.
FailureCached == nzbFetchErrCache # 0 /\ clock < errExpires

\* os.WriteFile of the disk-backed cache when it fails: the file of the key
\* is as it was (it could not be opened) or no longer readable (truncated).
WriteFails(cached) == {cached, 0}

\* fetchNZBFile up to its first lookup, nzbFileCache.Get (lines 105-112).
fetchNZBFile(c) ==
    /\ fetchPc[c] = "idle"
    /\ fetchLog' = [fetchLog EXCEPT ![c] = [at |-> clock, ended |-> Cardinality(Ended)]]
    /\ IF nzbFileCache # 0
       THEN /\ fetchPc' = [fetchPc EXCEPT ![c] = "done"]
            /\ fetchRet' = [fetchRet EXCEPT ![c] = [kind |-> "file", get |-> nzbFileCache]]
       ELSE /\ fetchPc' = [fetchPc EXCEPT ![c] = "failure lookup"]
            /\ UNCHANGED fetchRet
    /\ UNCHANGED <<nzbFileCache, nzbFetchErrCache, errExpires, flight, gets, jobs, clock,
                   getLog, notFetch>>

\* The second lookup, nzbFetchErrCache.Get (lines 113-122).
failureLookup(c) ==
    /\ fetchPc[c] = "failure lookup"
    /\ IF FailureCached
       THEN /\ fetchPc' = [fetchPc EXCEPT ![c] = "done"]
            /\ fetchRet' = [fetchRet EXCEPT ![c] =
                               [kind |-> "cached failure", get |-> nzbFetchErrCache]]
       ELSE /\ fetchPc' = [fetchPc EXCEPT ![c] = "Do"]
            /\ UNCHANGED fetchRet
    /\ UNCHANGED <<nzbFileCache, nzbFetchErrCache, errExpires, flight, gets, jobs, clock,
                   fetchLog, getLog, notFetch>>

\* nzbFileFetchSG.Do (line 123): wait for the call in progress, or start one.
singleflightDo(c) ==
    /\ fetchPc[c] = "Do"
    /\ IF flight.active
       THEN /\ fetchPc' = [fetchPc EXCEPT ![c] = "wait"]
            /\ UNCHANGED flight
       ELSE /\ fetchPc' = [fetchPc EXCEPT ![c] = "GET"]
            /\ flight' = [active |-> TRUE, result |-> NotReturned]
    /\ UNCHANGED <<fetchRet, nzbFileCache, nzbFetchErrCache, errExpires, gets, jobs, clock,
                   fetchLog, getLog, notFetch>>

\* The function of the call in progress up to its result (lines 133-192):
\* the GET, which yields a file or fails.
httpGet(c) ==
    /\ fetchPc[c] = "GET"
    /\ gets' = gets + 1
    /\ \E kind \in {"file", "error"} :
          /\ flight' = [flight EXCEPT !.result = [kind |-> kind, get |-> gets + 1]]
          /\ getLog' = Append(getLog, [by |-> c, kind |-> kind, added |-> "pending", at |-> 0])
    /\ fetchPc' = [fetchPc EXCEPT ![c] = "Add"]
    /\ UNCHANGED <<fetchRet, nzbFileCache, nzbFetchErrCache, errExpires, jobs, clock,
                   fetchLog, notFetch>>

\* onFetch of FetchNZBFile (lines 214-218): QueueJob, once nzbFileCache.Add
\* has returned without error (lines 193-200).
OnFetchAlways(c, written) == Append(jobs, [by |-> c, get |-> flight.result.get])
OnFetch(c, written) ==
    IF written THEN Append(jobs, [by |-> c, get |-> flight.result.get]) ELSE jobs

\* The deferred function (lines 124-131): a failure goes into
\* nzbFetchErrCache for its lifetime.
DeferredAddNothing(result) == [get |-> nzbFetchErrCache, expires |-> errExpires]
DeferredAdd(result) ==
    IF result.kind = "error"
    THEN [get |-> result.get, expires |-> clock + FailureLifetime]
    ELSE [get |-> nzbFetchErrCache, expires |-> errExpires]

\* The function's end: nzbFileCache.Add of the file (line 193), which can
\* fail to write, then onFetch; or the deferred nzbFetchErrCache.Add.
cacheAdd(c) ==
    /\ fetchPc[c] = "Add"
    /\ \E written \in (IF flight.result.kind = "file" THEN BOOLEAN ELSE {FALSE}) :
          /\ IF flight.result.kind = "file"
             THEN IF written
                  THEN nzbFileCache' = flight.result.get
                  ELSE nzbFileCache' \in WriteFails(nzbFileCache)
             ELSE UNCHANGED nzbFileCache
          /\ jobs' = OnFetch(c, written)
          /\ getLog' = [getLog EXCEPT ![flight.result.get].added =
                                          IF flight.result.kind = "error" \/ written
                                          THEN "yes" ELSE "no",
                                      ![flight.result.get].at = clock]
    /\ nzbFetchErrCache' = DeferredAdd(flight.result).get
    /\ errExpires' = DeferredAdd(flight.result).expires
    /\ fetchPc' = [fetchPc EXCEPT ![c] = "return"]
    /\ UNCHANGED <<fetchRet, flight, gets, clock, fetchLog, notFetch>>

\* Do returns (lines 123, 203-211): the key is forgotten, and the caller
\* that ran the function and the callers that waited have its result.
doReturns(c) ==
    /\ fetchPc[c] = "return"
    /\ fetchPc' = [d \in Callers |->
                      IF d = c \/ fetchPc[d] = "wait" THEN "done" ELSE fetchPc[d]]
    /\ fetchRet' = [d \in Callers |->
                       IF d = c \/ fetchPc[d] = "wait" THEN flight.result ELSE fetchRet[d]]
    /\ flight' = NoFlight
    /\ UNCHANGED <<nzbFileCache, nzbFetchErrCache, errExpires, gets, jobs, clock,
                   fetchLog, getLog, notFetch>>

\* CacheNZBFile (lines 220-222), called for the key by another part of the
\* program, when it writes its file (a write that fails leaves what
\* DeleteNZBFile or no step at all leaves).
CacheNZBFile ==
    /\ nzbFileCache # Uploaded
    /\ nzbFileCache' = Uploaded
    /\ UNCHANGED <<fetchPc, fetchRet, nzbFetchErrCache, errExpires, flight, gets, jobs,
                   clock, fetchLog, getLog, notFetch>>

\* DeleteNZBFile (lines 224-227), or the entry's expiry or eviction.
DeleteNZBFile ==
    /\ nzbFileCache # 0
    /\ nzbFileCache' = 0
    /\ UNCHANGED <<fetchPc, fetchRet, nzbFetchErrCache, errExpires, flight, gets, jobs,
                   clock, fetchLog, getLog, notFetch>>

\* Time passes.
tick ==
    /\ clock < MaxClock
    /\ clock' = clock + 1
    /\ UNCHANGED <<fetchPc, fetchRet, nzbFileCache, nzbFetchErrCache, errExpires, flight,
                   gets, jobs, fetchLog, getLog, notFetch>>

FetchInit ==
    /\ fetchPc = [c \in Callers |-> "idle"]
    /\ fetchRet = [c \in Callers |-> NotReturned]
    /\ nzbFileCache = 0 /\ nzbFetchErrCache = 0 /\ errExpires = 0
    /\ flight = NoFlight /\ gets = 0
    /\ jobs = <<>> /\ clock = 0
    /\ fetchLog = [c \in Callers |-> [at |-> 0, ended |-> 0]]
    /\ getLog = <<>>
    /\ FetchAlone

\* Calls that all overlap: none begins after another has returned, and all
\* of it within a time that is short against the lifetimes of the caches.
Overlapping == \A d \in Callers : fetchPc[d] # "done"

FetchNext ==
    \/ \E c \in Callers : Overlapping /\ fetchNZBFile(c)
    \/ \E c \in Callers : failureLookup(c)
    \/ \E c \in Callers : singleflightDo(c)
    \/ \E c \in Callers : httpGet(c)
    \/ \E c \in Callers : cacheAdd(c)
    \/ \E c \in Callers : doReturns(c)

FetchSpec == FetchInit /\ [][FetchNext]_vars

\* C30: for calls that overlap, with both caches empty at the start, one GET
\* is issued and no more, and every call returns the result of that GET.
C30_OneGetForOverlappingCalls ==
    /\ gets <= 1
    /\ \A c \in Callers :
          fetchPc[c] = "done" => gets = 1 /\ fetchRet[c].get = 1

\* Calls at any time, while time passes and the file cache is written to
\* and cleared by others.
TimedNext ==
    \/ \E c \in Callers : fetchNZBFile(c)
    \/ \E c \in Callers : failureLookup(c)
    \/ \E c \in Callers : singleflightDo(c)
    \/ \E c \in Callers : httpGet(c)
    \/ \E c \in Callers : cacheAdd(c)
    \/ \E c \in Callers : doReturns(c)
    \/ CacheNZBFile
    \/ DeleteNZBFile
    \/ tick

TimedSpec == FetchInit /\ [][TimedNext]_vars

\* GETs that failed and whose failure, cached when their function ended, has
\* not outlived its lifetime at the given time.
LiveFailures(now) ==
    {g \in DOMAIN getLog :
        /\ getLog[g].kind = "error" /\ getLog[g].added = "yes"
        /\ now < getLog[g].at + FailureLifetime}

\* C31 as stated: a call that began after a GET had failed and within the
\* lifetime of that failure issued no GET and returned a cached failure; and
\* a call that returned a cached failure began within its lifetime.
C31_NoRequestForFiveMinutes ==
    \A c \in Callers :
        fetchPc[c] = "done" =>
            /\ \A g \in LiveFailures(fetchLog[c].at) :
                  g <= fetchLog[c].ended =>
                      /\ fetchRet[c].kind = "cached failure"
                      /\ \A h \in DOMAIN getLog : getLog[h].by # c
            /\ fetchRet[c].kind = "cached failure" =>
                  fetchRet[c].get \in LiveFailures(fetchLog[c].at)

\* C31: a call that finds a file under the key in the file cache returns it
\* and issues no GET; a call that finds none and looks the key up in the
\* failure cache while a cached failure lives issues no GET and returns a
\* cached failure, that of a GET whose failure lives; a call that looks it
\* up when none lives gets no cached failure and goes on to singleflight.
C31_CachedFailureWhileItLives ==
    [][\A c \in Callers :
          /\ (fetchPc[c] = "idle" /\ fetchPc'[c] # "idle") =>
                IF nzbFileCache # 0
                THEN /\ fetchPc'[c] = "done" /\ gets' = gets
                     /\ fetchRet'[c] = [kind |-> "file", get |-> nzbFileCache]
                ELSE fetchPc'[c] = "failure lookup"
          /\ (fetchPc[c] = "failure lookup" /\ fetchPc'[c] # "failure lookup") =>
                IF LiveFailures(clock) # {}
                THEN /\ fetchPc'[c] = "done" /\ gets' = gets
                     /\ fetchRet'[c].kind = "cached failure"
                     /\ fetchRet'[c].get \in LiveFailures(clock)
                ELSE fetchPc'[c] = "Do" /\ fetchRet'[c] = fetchRet[c]]_vars

\* C31 witness: one call has returned the cached failure of the first GET,
\* and a call begun after its lifetime has issued the second GET.
C31_Witness ==
    /\ \E c \in Callers : fetchRet[c] = [kind |-> "cached failure", get |-> 1]
    /\ Len(getLog) >= 2
    /\ fetchLog[getLog[2].by].at >= getLog[1].at + FailureLifetime

\* GETs that fetched a file which nzbFileCache.Add then stored.
StoredDownloads ==
    {g \in DOMAIN getLog : getLog[g].kind = "file" /\ getLog[g].added = "yes"}

\* C40: every job was enqueued by the call that issued a GET, for a file
\* that the GET fetched and that was stored in the file cache; every such
\* download has exactly one job; so a call that returned from a cache, whose
\* download or cache write failed, or that shared another call's result,
\* enqueued nothing.
C40_JobExactlyForStoredDownload ==
    /\ \A j \in DOMAIN jobs :
          /\ jobs[j].get \in StoredDownloads
          /\ getLog[jobs[j].get].by = jobs[j].by
    /\ \A g \in StoredDownloads :
          Cardinality({j \in DOMAIN jobs : jobs[j].get = g}) = 1

\* C40 witness: all calls have returned; one fetched and stored the file and
\* has its job, one fetched it and failed to store it, one failed to fetch
\* or returned from a cache, and there is one job only.
C40_Witness ==
    /\ \A c \in Callers : fetchPc[c] = "done"
    /\ Len(jobs) = 1
    /\ \E g \in DOMAIN getLog : getLog[g].kind = "file" /\ getLog[g].added = "no"
    /\ \E c \in Callers : \A g \in DOMAIN getLog : getLog[g].by # c

\* ------------------------------------------------------ process-NZB jobs
\* The Executor of the process-NZB scheduler: JobQueue().Process hands the
\* handler one job at a time (RunExclusive).  Upsert and UpdateStatus write
\* to the database, GetPool and InspectNZBContent belong to the pool; each
\* of them can fail.  A write that fails leaves the record as it was.
MaxJobs == 3        \* jobs handed to the handler
MaxHashes == 2      \* NZBs the jobs are about

Hashes == 1 .. MaxHashes
Statuses == {"none", "downloading", "downloaded", "failed"}

\* The handler returns.
Return(failed) == [procJob EXCEPT !.pc = "returned", !.err = failed]

\* Process takes the next job off the queue and calls the handler (line 24).
processJob ==
    /\ procJob.pc \in {"none", "returned"}
    /\ procLeft > 0
    /\ procLeft' = procLeft - 1
    /\ \E h \in Hashes : procJob' = [NoJob EXCEPT !.hash = h, !.pc = "fetch"]
    /\ UNCHANGED <<nzbStatus, notProc>>

\* fetchNZBFile and nzb.ParseBytes (lines 25-33): an error of either is
\* returned.
processFetch ==
    /\ procJob.pc = "fetch"
    /\ \E ok \in BOOLEAN :
          procJob' = IF ok THEN [procJob EXCEPT !.pc = "upsert"] ELSE Return(TRUE)
    /\ UNCHANGED <<procLeft, nzbStatus, notProc>>

\* Upsert of the record with status downloading (lines 61-75).
processUpsert ==
    /\ procJob.pc = "upsert"
    /\ \E ok \in BOOLEAN :
          IF ok
          THEN /\ nzbStatus' = [nzbStatus EXCEPT ![procJob.hash] = "downloading"]
               /\ procJob' = [procJob EXCEPT !.pc = "pool", !.stored = TRUE]
          ELSE /\ procJob' = Return(TRUE)
               /\ UNCHANGED nzbStatus
    /\ UNCHANGED <<procLeft, notProc>>

\* usenetmanager.GetPool (lines 77-80): its error is returned.
processGetPool ==
    /\ procJob.pc = "pool"
    /\ \E ok \in BOOLEAN :
          procJob' = IF ok THEN [procJob EXCEPT !.pc = "inspect"] ELSE Return(TRUE)
    /\ UNCHANGED <<procLeft, nzbStatus, notProc>>

\* UpdateStatus(hash, failed) (line 84): what it returns is dropped.
UpdateStatusFailed(ok) ==
    IF ok THEN [nzbStatus EXCEPT ![procJob.hash] = "failed"] ELSE nzbStatus

\* pool.InspectNZBContent (lines 81-86): on its error the status is set to
\* failed and the error returned.
processInspect ==
    /\ procJob.pc = "inspect"
    /\ \E content \in {"error", "streamable", "not streamable"} :
          IF content = "error"
          THEN /\ \E ok \in BOOLEAN : nzbStatus' = UpdateStatusFailed(ok)
               /\ procJob' = [Return(TRUE) EXCEPT !.content = content]
          ELSE /\ procJob' = [procJob EXCEPT !.pc = "finish", !.content = content]
               /\ UNCHANGED nzbStatus
    /\ UNCHANGED <<procLeft, notProc>>

\* The status that the inspection's answer makes (lines 89-93).
StatusOf(content) == IF content = "streamable" THEN "downloaded" ELSE "failed"

\* The last Upsert, whose error is returned (line 95).
processFinish ==
    /\ procJob.pc = "finish"
    /\ \E ok \in BOOLEAN :
          IF ok
          THEN /\ nzbStatus' = [nzbStatus EXCEPT ![procJob.hash] = StatusOf(procJob.content)]
               /\ procJob' = Return(FALSE)
          ELSE /\ procJob' = Return(TRUE)
               /\ UNCHANGED nzbStatus
    /\ UNCHANGED <<procLeft, notProc>>

ProcInit ==
    /\ procLeft = MaxJobs
    /\ procJob = NoJob
    /\ nzbStatus \in [Hashes -> Statuses]
    /\ ProcAlone

ProcNext ==
    \/ processJob
    \/ processFetch
    \/ processUpsert
    \/ processGetPool
    \/ processInspect
    \/ processFinish

ProcSpec == ProcInit /\ [][ProcNext]_vars

\* C39: when the handler has returned for a job after storing the record
\* with status downloading, the persisted status of the NZB is downloaded
\* if the inspection succeeded and found the content streamable, and failed
\* otherwise.
C39_NeverLeftDownloading ==
    (procJob.pc = "returned" /\ procJob.stored) =>
        nzbStatus[procJob.hash] = StatusOf(procJob.content)

\* ---------------------------------------------- Segments Stream: the budget
\* What the workers have given back for segments fetched with data
\* (declared - decoded), and what Read has credited for the segments it has
\* received from dataChan (their decoded sizes).
RECURSIVE AdjustedUpTo(_)
AdjustedUpTo(j) ==
    IF j < 0 THEN 0
    ELSE (IF decoded[j] > 0 THEN SegBytes - decoded[j] ELSE 0) + AdjustedUpTo(j - 1)
RECURSIVE CreditedUpTo(_)
CreditedUpTo(j) == IF j < 0 THEN 0 ELSE decoded[j] + CreditedUpTo(j - 1)

BudgetAfter(n) ==
    bufferSize - n * SegBytes + AdjustedUpTo(nsegs - 1) + CreditedUpTo(currIdx)

\* Every segment has been received by Read and no fetch failed.
AllConsumed == nsegs > 0 /\ currIdx = nsegs - 1 /\ NoFetchError

Window(st) == st.indexRange.Start .. st.indexRange.End - 1

\* The index window and the byte window of st describe the same run of
\* segments of f: the bytes of the window are those of its segments.
SameRun(f, st) ==
    IF Count(st.indexRange) > 0
    THEN /\ Window(st) \subseteq 0 .. f.n - 1
         /\ st.byteRange.Start = f.ranges[st.indexRange.Start].Start
         /\ st.byteRange.End = f.ranges[st.indexRange.End - 1].End
    ELSE Count(st.byteRange) = 0

\* The search has returned the one segment whose range contains the target,
\* and that range.
FoundTheSegment ==
    /\ search.result.status = "found"
    /\ search.result.SegmentIndex \in 0 .. file.n - 1
    /\ Contains(file.ranges[search.result.SegmentIndex], targetByte)
    /\ \A k \in 0 .. file.n - 1 :
            Contains(file.ranges[k], targetByte) => k = search.result.SegmentIndex
    /\ search.result.Range = file.ranges[search.result.SegmentIndex]

\* A search for a byte of a tiled file all of whose fetches so far succeeded.
TiledSearch ==
    /\ Tiles(file)
    /\ targetByte >= 0 /\ targetByte < file.fileSize
    /\ search.pc # "idle"
    /\ AllProbesAnswered

WindowsHoldTarget ==
    /\ SameRun(file, search)
    /\ Contains(search.byteRange, targetByte)
    /\ \E k \in Window(search) : Contains(file.ranges[k], targetByte)

\* C33 as stated: on a tiled file, with every fetch succeeding and the
\* target inside the file, the windows always describe the same run of
\* segments and contain the target, and the search returns, without error,
\* the one segment whose range contains the target, with that range.
C33_FoundOnTiledFile ==
    TiledSearch =>
        /\ WindowsHoldTarget
        /\ search.pc \in {"done", "returned"} => FoundTheSegment

\* C33, amended: the same, except that a search whose context is cancelled
\* before a pass of the loop returns the error of the context instead.
C33_FoundUnlessCancelled ==
    TiledSearch =>
        /\ WindowsHoldTarget
        /\ search.pc \in {"done", "returned"} =>
                \/ FoundTheSegment
                \/ fsCtxDone /\ search.result.status = "context"
        /\ (search.pc \in {"done", "returned"} /\ ~fsCtxDone) => FoundTheSegment

\* A search of a tiled file that found the segment with its third probe.
C33_Witness ==
    /\ TiledSearch
    /\ ~fsCtxDone
    /\ search.pc = "returned"
    /\ Len(search.probes) >= 3
    /\ FoundTheSegment
    /\ stream # NilStream

\* ------------------------------------------------------------ the search: termination
LastProbe(st) == st.probes[Len(st.probes)]

\* A pass of the loop returns, or probes an index of the window and leaves
\* a window inside the old one without the probed index.
LoopPassNarrows ==
    (search.pc = "loop" /\ search' # search) =>
        \/ search'.pc = "done"
        \/ /\ search'.pc = "loop"
           /\ Len(search'.probes) = Len(search.probes) + 1
           /\ LastProbe(search').index \in Window(search)
           /\ LastProbe(search').index \notin Window(search')
           /\ Window(search') \subseteq Window(search)

\* A pass of the loop that finds the context cancelled probes nothing.
LoopPassChecksContext ==
    (search.pc = "loop" /\ search' # search /\ fsCtxDone) =>
        /\ search'.probes = search.probes
        /\ search'.pc = "done"
        /\ search'.result.status = "context"

\* C34: whatever the fetches answer, every pass of the loop returns or
\* removes at least the probed index from the index window, and checks the
\* context before it probes; the search makes at most SegmentCount + 1
\* probes, and it returns.
C34_SearchTerminates ==
    /\ [](Len(search.probes) <= file.n + 1)
    /\ [][LoopPassNarrows /\ LoopPassChecksContext]_vars
    /\ <>(search.pc = "returned")

\* A search of a damaged file that returned after SegmentCount + 1 probes.
C34_Witness ==
    /\ ~Tiles(file)
    /\ search.pc = "returned"
    /\ Len(search.probes) = file.n + 1
    /\ file.n >= 2

\* The steps of a search are the statements of one call: it goes on until
\* it returns.
SearchFairSpec == SearchSpec /\ WF_vars(SearchNext)

\* ------------------------------------------------------------ File Stream: Seek
\* A step that ends with a Seek that failed, or that arrived where the
\* position already was, leaves position and stream as they were and drops
\* no stream.
SeekInPlaceKeeps ==
    (lastOp'.op = "Seek" /\ (lastOp'.err # "nil" \/ lastOp'.n = position)) =>
        /\ position' = position
        /\ stream' = stream
        /\ orphaned'["Read"] = orphaned["Read"]

\* A step that ends with a Seek to another position has moved there, holds
\* no stream, and has closed the one it held.
SeekAwayDiscards ==
    (lastOp'.op = "Seek" /\ lastOp'.err = "nil" /\ lastOp'.n # position) =>
        /\ position' = lastOp'.n
        /\ stream' = NilStream
        /\ orphaned'["Read"] = orphaned["Read"]

\* Only such a Seek makes s.stream nil again.
OnlySeekAwayDiscards ==
    (stream # NilStream /\ stream' = NilStream) =>
        (lastOp'.op = "Seek" /\ lastOp'.err = "nil" /\ position' # position)

\* A Read that finds no stream and builds one builds it from the segment
\* that contains the position, and open.
ReadBuildsAtPosition ==
    (stream = NilStream /\ stream' # NilStream) =>
        /\ lastOp'.op = "Read" /\ lastOp'.at = position
        /\ Contains(file.ranges[stream'.base], position)
        /\ stream'.open

\* C36: a Seek that fails (negative position, invalid whence) and a Seek to
\* the current position leave position and stream unchanged; only a Seek to
\* a different position closes and discards the stream; and the stream the
\* next Read builds starts at the segment that contains the new position.
C36_SeekFrame ==
    [][/\ SeekInPlaceKeeps
       /\ SeekAwayDiscards
       /\ OnlySeekAwayDiscards
       /\ ReadBuildsAtPosition]_vars

\* After a Seek into the second segment a Read has built a stream there.
C36_Witness ==
    /\ lastOp.op = "Read" /\ lastOp.err = "nil" /\ lastOp.n > 0
    /\ stream # NilStream /\ stream.open /\ stream.base = 1
    /\ Contains(file.ranges[1], lastOp.at)
    /\ ~fsClosed

\* ------------------------------------------------------------ File Stream: Close
\* A step that ends with a Read of a closed File Stream returns the error
\* of a closed stream and no bytes, and moves and creates nothing.
ReadOfClosedFails ==
    (fsClosed /\ lastOp'.op = "Read") =>
        /\ lastOp'.err = "closed" /\ lastOp'.n = 0 /\ lastOp'.bytes = <<>>
        /\ position' = position
        /\ stream' = stream
        /\ orphaned'["Read"] = orphaned["Read"]

\* A step that ends with a Close of a closed File Stream returns nil and
\* changes nothing.
CloseOfClosedIsNoOp ==
    (fsClosed /\ lastOp'.op = "Close") =>
        /\ lastOp'.err = "nil"
        /\ UNCHANGED <<position, stream, fsClosed, fsCtxDone, orphaned>>

\* C38: after Close every Read returns an error, creates no Segments Stream
\* and leaves the position; the context of the stream is cancelled; and a
\* second Close returns nil and changes nothing.
C38_ClosedForGood ==
    /\ [](fsClosed => (/\ fsCtxDone
                       /\ stream = NilStream \/ ~stream.open
                       /\ lastOp.op = "Read" => lastOp.err = "closed"))
    /\ [][ReadOfClosedFails /\ CloseOfClosedIsNoOp /\ (fsClosed => fsClosed')]_vars

\* A Read after the Close of a File Stream in the middle of the file.
C38_Witness ==
    /\ fsClosed
    /\ lastOp.op = "Read" /\ lastOp.err = "closed"
    /\ position > 0 /\ position < file.fileSize
    /\ stream # NilStream

\* ------------------------------------------------------------ disk-backed cache
MaxAdders == 2      \* most calls of Add running at once
MaxAdds == 3        \* most calls of Add in all
MaxValue == 2       \* values are numbered from 1
ChunkCount == 2     \* an encoded value takes this many writes to the file

Adders == 1 .. MaxAdders
CacheValues == 1 .. MaxValue

\* gob.NewEncoder(&buf).Encode(value): the chunks of the encoding, each its
\* own; 0 is a chunk nobody wrote.
Chunk(value, k) == value * ChunkCount + (k - 1)
Encode(value) == [k \in 1 .. ChunkCount |-> Chunk(value, k)]

\* gob.NewDecoder(bytes.NewReader(data)).Decode(value): a stream that is
\* cut short or does not begin with the head of an encoding is an error;
\* of any other the chunks are taken as they are.
Decode(data) ==
    IF Len(data) < ChunkCount \/ data[1] = 0
    THEN [called |-> TRUE, ok |-> FALSE, value |-> <<>>]
    ELSE [called |-> TRUE, ok |-> TRUE, value |-> SubSeq(data, 1, ChunkCount)]

\* The file after a write of chunk at place k: what lies before and was
\* never written is a hole.
WriteAt(data, k, chunk) ==
    [i \in 1 .. Max(Len(data), k) |->
        IF i = k THEN chunk ELSE IF i <= Len(data) THEN data[i] ELSE 0]

\* OnAtomicDeletion: os.RemoveAll of the file of the key.
OnAtomicDeletion(f) == [f EXCEPT !.exists = FALSE, !.data = <<>>]

\* c.otter.Invalidate(key).
Invalidate ==
    /\ otterEntry' = FALSE
    /\ diskFile' = IF otterEntry THEN OnAtomicDeletion(diskFile) ELSE diskFile

\* Add(key, value) up to the encoding of the value, which does not fail.
Add(a, value) ==
    /\ addsLeft > 0
    /\ adders[a].pc = "idle"
    /\ adders' = [adders EXCEPT ![a] = [NoAdd EXCEPT !.pc = "set", !.value = value]]
    /\ addsLeft' = addsLeft - 1
    /\ UNCHANGED <<otterEntry, diskFile, addedOk, lastGet, notCache>>

\* c.otter.Set(key, meta).
otterSet(a) ==
    /\ adders[a].pc = "set"
    /\ otterEntry' = TRUE
    /\ adders' = [adders EXCEPT ![a].pc = "open"]
    /\ UNCHANGED <<diskFile, addsLeft, addedOk, lastGet, notCache>>

\* os.WriteFile opens the file, creating or truncating it; when that fails
\* Add returns the error.
writeFileOpen(a) ==
    /\ adders[a].pc = "open"
    /\ \E ok \in BOOLEAN :
          IF ok
          THEN /\ diskFile' = [exists |-> TRUE,
                               ino |-> IF diskFile.exists THEN diskFile.ino
                                       ELSE diskFile.ino + 1,
                               data |-> <<>>]
               /\ adders' = [adders EXCEPT ![a].pc = "write", ![a].ino = diskFile'.ino]
          ELSE /\ adders' = [adders EXCEPT ![a] = NoAdd]
               /\ UNCHANGED diskFile
    /\ UNCHANGED <<otterEntry, addsLeft, addedOk, lastGet, notCache>>

\* os.WriteFile writes the next chunk where its own file offset stands, to
\* the file it opened, which may have been removed since; after the last
\* chunk Add returns nil; when a write fails Add returns the error.
writeFileWrite(a) ==
    LET place == adders[a].written + 1
        mine == diskFile.exists /\ diskFile.ino = adders[a].ino
    IN  /\ adders[a].pc = "write"
        /\ \E ok \in BOOLEAN :
              IF ok
              THEN /\ diskFile' = IF mine
                                  THEN [diskFile EXCEPT !.data =
                                            WriteAt(@, place, Chunk(adders[a].value, place))]
                                  ELSE diskFile
                   /\ IF place = ChunkCount
                      THEN /\ adders' = [adders EXCEPT ![a] = NoAdd]
                           /\ addedOk' = TRUE
                      ELSE /\ adders' = [adders EXCEPT ![a].written = place]
                           /\ UNCHANGED addedOk
              ELSE /\ adders' = [adders EXCEPT ![a] = NoAdd]
                   /\ UNCHANGED <<diskFile, addedOk>>
        /\ UNCHANGED <<otterEntry, addsLeft, lastGet, notCache>>

\* Get(key, &value): os.ReadFile, and on its error Invalidate; then Decode.
Get ==
    /\ IF ~diskFile.exists
       THEN /\ Invalidate
            /\ lastGet' = [called |-> TRUE, ok |-> FALSE, value |-> <<>>]
            /\ addedOk' = FALSE
       ELSE /\ lastGet' = Decode(diskFile.data)
            /\ UNCHANGED <<otterEntry, diskFile, addedOk>>
    /\ UNCHANGED <<adders, addsLeft, notCache>>

\* Has(key).
Has == otterEntry

\* What Get(key) would return now.
GetHits == diskFile.exists /\ Decode(diskFile.data).ok

\* Remove(key).
Remove ==
    /\ otterEntry \/ addedOk
    /\ Invalidate
    /\ addedOk' = FALSE
    /\ UNCHANGED <<adders, addsLeft, lastGet, notCache>>

\* otter evicts the entry of the key to keep within MaximumWeight.
Evict ==
    /\ otterEntry
    /\ Invalidate
    /\ addedOk' = FALSE
    /\ UNCHANGED <<adders, addsLeft, lastGet, notCache>>

CacheInit ==
    /\ otterEntry = FALSE
    /\ diskFile = AbsentFile
    /\ adders = [a \in Adders |-> NoAdd]
    /\ addsLeft = MaxAdds
    /\ addedOk = FALSE
    /\ lastGet = NoGet
    /\ CacheAlone

CacheNext ==
    \/ \E a \in Adders, value \in CacheValues : Add(a, value)
    \/ \E a \in Adders : otterSet(a)
    \/ \E a \in Adders : writeFileOpen(a)
    \/ \E a \in Adders : writeFileWrite(a)
    \/ Get
    \/ Remove
    \/ Evict

CacheSpec == CacheInit /\ [][CacheNext]_vars

\* The value Get returned is one that Add encoded, whole.
Complete(value) == \E v \in CacheValues : value = Encode(v)

\* C32: whatever Get returns while calls of Add run is a miss or one value
\* written completely, never parts of two values or a part of one; and from
\* the return of an Add without error until the entry is removed or
\* evicted, Has(key) and Get(key) agree.
C32_AtomicPerKey ==
    /\ lastGet.ok => Complete(lastGet.value)
    /\ addedOk => (Has = GetHits)

====
